---------------------------- MODULE Spec2Model ----------------------------
(***************************************************************************)
(* Command and response dispatch of the meeting assistant:                 *)
(*   meeting_interface/command_recognition.py  (CommandRecognizer)         *)
(*   meeting_interface/chat_handler.py         (ChatHandler)               *)
(*   meeting_interface/browser_automation.py   (BrowserAutomation)         *)
(*   meeting_interface/audio_handler.py        (AudioHandler)              *)
(*                                                                         *)
(* Text is modelled as Python models it: a string is a sequence of         *)
(* one-character strings, so that lower(), find(), strip(), split() and    *)
(* re.search() are computed character by character.                        *)
(***************************************************************************)
EXTENDS Integers, Sequences, FiniteSets, TLC

(***************************************************************************)
(* Python string operations                                                *)
(***************************************************************************)

\* str.strip() and the regular expression class \s
WhiteSpace == {" ", "\n", "\t", "\r"}

UpperLetters ==
  <<"A","B","C","D","E","F","G","H","I","J","K","L","M",
    "N","O","P","Q","R","S","T","U","V","W","X","Y","Z">>

LowerLetters ==
  <<"a","b","c","d","e","f","g","h","i","j","k","l","m",
    "n","o","p","q","r","s","t","u","v","w","x","y","z">>

LowerChar(c) ==
  IF \E i \in DOMAIN UpperLetters : UpperLetters[i] = c
    THEN LowerLetters[CHOOSE i \in DOMAIN UpperLetters : UpperLetters[i] = c]
    ELSE c

\* str.lower()
Lower(s) == IF s = <<>> THEN <<>> ELSE [i \in 1..Len(s) |-> LowerChar(s[i])]

\* p occurs in s at position i (1-based)
MatchAt(p, s, i) ==
  /\ i >= 1
  /\ i + Len(p) - 1 <= Len(s)
  /\ \A j \in 1..Len(p) : s[i + j - 1] = p[j]

\* the Python operator `p in s` for a non-empty p
Contains(p, s) == \E i \in 1..Len(s) : MatchAt(p, s, i)

\* str.find(): the 1-based position of the first occurrence, 0 when absent
\* (Python: 0-based, -1 when absent)
Find(p, s) ==
  IF Contains(p, s)
    THEN CHOOSE i \in 1..Len(s) :
           MatchAt(p, s, i) /\ \A k \in 1..(i - 1) : ~MatchAt(p, s, k)
    ELSE 0

\* str.strip()
Strip(s) ==
  LET keep == {i \in 1..Len(s) : s[i] \notin WhiteSpace}
  IN  IF keep = {} THEN <<>>
      ELSE LET a == CHOOSE i \in keep : \A k \in keep : i <= k
               b == CHOOSE i \in keep : \A k \in keep : k <= i
           IN  SubSeq(s, a, b)

\* s[i:] for a 0-based Python index i
From(s, i) == SubSeq(s, i + 1, Len(s))

\* re.search(r'(?i)w1\s+w2', s): w1, one or more white space characters, w2
SearchPhrase(w1, w2, s) ==
  LET ls == Lower(s)
  IN  \E i \in 1..Len(s) :
        /\ MatchAt(w1, ls, i)
        /\ \E k \in 1..Len(s) :
             /\ \A m \in 0..(k - 1) :
                  /\ i + Len(w1) + m <= Len(s)
                  /\ ls[i + Len(w1) + m] \in WhiteSpace
             /\ MatchAt(w2, ls, i + Len(w1) + k)

\* re.search(r'w', s), the pattern without its flag (?i)
SearchWord_case_sensitive(w, s) == Contains(w, s)

\* re.search(r'(?i)w', s)
SearchWord(w, s) == Contains(w, Lower(s))

(***************************************************************************)
(* String literals of the source                                           *)
(***************************************************************************)
W_augment == <<"a","u","g","m","e","n","t">>
W_summarize == <<"s","u","m","m","a","r","i","z","e">>
W_take == <<"t","a","k","e">>
W_notes == <<"n","o","t","e","s">>
W_list == <<"l","i","s","t">>
W_participants == <<"p","a","r","t","i","c","i","p","a","n","t","s">>
W_help == <<"h","e","l","p">>
W_status == <<"s","t","a","t","u","s">>
W_leave == <<"l","e","a","v","e">>
W_mute == <<"m","u","t","e">>
W_unmute == <<"u","n","m","u","t","e">>
W_record == <<"r","e","c","o","r","d">>
W_stop == <<"s","t","o","p">>
W_recording == <<"r","e","c","o","r","d","i","n","g">>
W_transcribe == <<"t","r","a","n","s","c","r","i","b","e">>
W_transcribing == <<"t","r","a","n","s","c","r","i","b","i","n","g">>
W_list_participants == <<"l","i","s","t"," ","p","a","r","t","i","c","i","p","a","n","t","s">>
\* the string literals of the source and of the inputs, by name
Lit ==
  [
    \* "Augment"
    TriggerWord |->
      <<"A","u","g","m","e","n","t">>,
    \* "AI Assistant"
    AssistantName |->
      <<"A","I"," ","A","s","s","i","s","t","a","n","t">>,
    \* "Sam"
    Sam |->
      <<"S","a","m">>,
    \* "Jo"
    Jo |->
      <<"J","o">>,
    \* "Unknown"
    UnknownSender |->
      <<"U","n","k","n","o","w","n">>,
    \* "Augment status"
    Txt_status |->
      <<"A","u","g","m","e","n","t"," ","s","t","a","t","u","s">>,
    \* "Augment please stop recording now"
    Txt_stop_recording |->
      <<"A","u","g","m","e","n","t"," ","p","l","e","a","s","e"," ","s","t","o","p"," ","r",
        "e","c","o","r","d","i","n","g"," ","n","o","w">>,
    \* "Augment"
    Txt_bare |->
      <<"A","u","g","m","e","n","t">>,
    \* "Augment  "
    Txt_bare_ws |->
      <<"A","u","g","m","e","n","t"," "," ">>,
    \* "Augment help"
    Txt_help |->
      <<"A","u","g","m","e","n","t"," ","h","e","l","p">>,
    \* "Augment leave"
    Txt_leave |->
      <<"A","u","g","m","e","n","t"," ","l","e","a","v","e">>,
    \* "Augment record"
    Txt_record |->
      <<"A","u","g","m","e","n","t"," ","r","e","c","o","r","d">>,
    \* "Augment do a backflip"
    Txt_backflip |->
      <<"A","u","g","m","e","n","t"," ","d","o"," ","a"," ","b","a","c","k","f","l","i","p">>,
    \* "hello everyone"
    Txt_hello |->
      <<"h","e","l","l","o"," ","e","v","e","r","y","o","n","e">>,
    \* "status"
    Cmd_status |->
      <<"s","t","a","t","u","s">>,
    \* "please stop recording now"
    Cmd_stop_recording |->
      <<"p","l","e","a","s","e"," ","s","t","o","p"," ","r","e","c","o","r","d","i","n","g",
        " ","n","o","w">>,
    \* "help"
    Cmd_help |->
      <<"h","e","l","p">>,
    \* "leave"
    Cmd_leave |->
      <<"l","e","a","v","e">>,
    \* "record"
    Cmd_record |->
      <<"r","e","c","o","r","d">>,
    \* "do a backflip"
    Cmd_backflip |->
      <<"d","o"," ","a"," ","b","a","c","k","f","l","i","p">>,
    \* "Augment summarize"
    Txt_summarize |->
      <<"A","u","g","m","e","n","t"," ","s","u","m","m","a","r","i","z","e">>,
    \* "Augment take notes"
    Txt_take_notes |->
      <<"A","u","g","m","e","n","t"," ","t","a","k","e"," ","n","o","t","e","s">>,
    \* "Augment list participants"
    Txt_list_participants |->
      <<"A","u","g","m","e","n","t"," ","l","i","s","t"," ","p","a","r","t","i","c","i","p",
        "a","n","t","s">>,
    \* "Augment mute"
    Txt_mute |->
      <<"A","u","g","m","e","n","t"," ","m","u","t","e">>,
    \* "Augment unmute"
    Txt_unmute |->
      <<"A","u","g","m","e","n","t"," ","u","n","m","u","t","e">>,
    \* "Augment stop recording"
    Txt_stop_rec |->
      <<"A","u","g","m","e","n","t"," ","s","t","o","p"," ","r","e","c","o","r","d","i","n",
        "g">>,
    \* "Augment transcribe"
    Txt_transcribe |->
      <<"A","u","g","m","e","n","t"," ","t","r","a","n","s","c","r","i","b","e">>,
    \* "Augment stop transcribing"
    Txt_stop_transcribing |->
      <<"A","u","g","m","e","n","t"," ","s","t","o","p"," ","t","r","a","n","s","c","r","i",
        "b","i","n","g">>,
    \* "Augment help me leave"
    Txt_help_me_leave |->
      <<"A","u","g","m","e","n","t"," ","h","e","l","p"," ","m","e"," ","l","e","a","v","e">>,
    \* "Augment status and summarize"
    Txt_status_and_summarize |->
      <<"A","u","g","m","e","n","t"," ","s","t","a","t","u","s"," ","a","n","d"," ","s","u",
        "m","m","a","r","i","z","e">>,
    \* "Augment transcribe and record"
    Txt_transcribe_and_record |->
      <<"A","u","g","m","e","n","t"," ","t","r","a","n","s","c","r","i","b","e"," ","a","n",
        "d"," ","r","e","c","o","r","d">>,
    \* "AUGMENT help"
    Txt_AUGMENT_help |->
      <<"A","U","G","M","E","N","T"," ","h","e","l","p">>,
    \* "augment Help"
    Txt_augment_Help |->
      <<"a","u","g","m","e","n","t"," ","H","e","l","p">>,
    \* "Augment HELP"
    Txt_Augment_HELP |->
      <<"A","u","g","m","e","n","t"," ","H","E","L","P">>,
    \* "help! Augment leave"
    Txt_help_before_leave |->
      <<"h","e","l","p","!"," ","A","u","g","m","e","n","t"," ","l","e","a","v","e">>,
    \* "summarize"
    Cmd_summarize |->
      <<"s","u","m","m","a","r","i","z","e">>,
    \* "take notes"
    Cmd_take_notes |->
      <<"t","a","k","e"," ","n","o","t","e","s">>,
    \* "list participants"
    Cmd_list_participants |->
      <<"l","i","s","t"," ","p","a","r","t","i","c","i","p","a","n","t","s">>,
    \* "mute"
    Cmd_mute |->
      <<"m","u","t","e">>,
    \* "unmute"
    Cmd_unmute |->
      <<"u","n","m","u","t","e">>,
    \* "stop recording"
    Cmd_stop_rec |->
      <<"s","t","o","p"," ","r","e","c","o","r","d","i","n","g">>,
    \* "transcribe"
    Cmd_transcribe |->
      <<"t","r","a","n","s","c","r","i","b","e">>,
    \* "stop transcribing"
    Cmd_stop_transcribing |->
      <<"s","t","o","p"," ","t","r","a","n","s","c","r","i","b","i","n","g">>,
    \* "help me leave"
    Cmd_help_me_leave |->
      <<"h","e","l","p"," ","m","e"," ","l","e","a","v","e">>,
    \* "status and summarize"
    Cmd_status_and_summarize |->
      <<"s","t","a","t","u","s"," ","a","n","d"," ","s","u","m","m","a","r","i","z","e">>,
    \* "transcribe and record"
    Cmd_transcribe_and_record |->
      <<"t","r","a","n","s","c","r","i","b","e"," ","a","n","d"," ","r","e","c","o","r","d">>,
    \* "Help"
    Cmd_Help |->
      <<"H","e","l","p">>,
    \* "HELP"
    Cmd_HELP |->
      <<"H","E","L","P">>,
    \* "Current participants: Sam, Jo"
    Say_participants_Sam_Jo |->
      <<"C","u","r","r","e","n","t"," ","p","a","r","t","i","c","i","p","a","n","t","s",":",
        " ","S","a","m",","," ","J","o">>,
    \* "Hello! I'm the AI Meeting Assistant. I'm here to take notes a..."
    Greeting |->
      <<"H","e","l","l","o","!"," ","I","'","m"," ","t","h","e"," ","A","I"," ","M","e","e",
        "t","i","n","g"," ","A","s","s","i","s","t","a","n","t","."," ","I","'","m"," ","h",
        "e","r","e"," ","t","o"," ","t","a","k","e"," ","n","o","t","e","s"," ","a","n","d",
        " ","a","s","s","i","s","t"," ","w","i","t","h"," ","t","h","e"," ","m","e","e","t",
        "i","n","g",".">>,
    \* "There's no transcript to summarize yet."
    R_no_transcript |->
      <<"T","h","e","r","e","'","s"," ","n","o"," ","t","r","a","n","s","c","r","i","p","t",
        " ","t","o"," ","s","u","m","m","a","r","i","z","e"," ","y","e","t",".">>,
    \* "Here's a quick summary of the meeting so far: This is a place..."
    R_summary |->
      <<"H","e","r","e","'","s"," ","a"," ","q","u","i","c","k"," ","s","u","m","m","a","r",
        "y"," ","o","f"," ","t","h","e"," ","m","e","e","t","i","n","g"," ","s","o"," ","f",
        "a","r",":"," ","T","h","i","s"," ","i","s"," ","a"," ","p","l","a","c","e","h","o",
        "l","d","e","r"," ","s","u","m","m","a","r","y","."," ","I","n"," ","a"," ","r","e",
        "a","l"," ","i","m","p","l","e","m","e","n","t","a","t","i","o","n",","," ","I"," ",
        "w","o","u","l","d"," ","g","e","n","e","r","a","t","e"," ","a"," ","p","r","o","p",
        "e","r"," ","s","u","m","m","a","r","y"," ","o","f"," ","t","h","e"," ","m","e","e",
        "t","i","n","g"," ","c","o","n","t","e","n","t",".">>,
    \* "I'm already taking notes of this meeting. I'll provide a summ..."
    R_take_notes |->
      <<"I","'","m"," ","a","l","r","e","a","d","y"," ","t","a","k","i","n","g"," ","n","o",
        "t","e","s"," ","o","f"," ","t","h","i","s"," ","m","e","e","t","i","n","g","."," ",
        "I","'","l","l"," ","p","r","o","v","i","d","e"," ","a"," ","s","u","m","m","a","r",
        "y"," ","a","t"," ","t","h","e"," ","e","n","d",".">>,
    \* "I couldn't detect any participants."
    R_no_participants |->
      <<"I"," ","c","o","u","l","d","n","'","t"," ","d","e","t","e","c","t"," ","a","n","y",
        " ","p","a","r","t","i","c","i","p","a","n","t","s",".">>,
    \* "Current participants: "
    R_participants_prefix |->
      <<"C","u","r","r","e","n","t"," ","p","a","r","t","i","c","i","p","a","n","t","s",":",
        " ">>,
    \* "I'll leave the meeting now. Goodbye!"
    R_farewell |->
      <<"I","'","l","l"," ","l","e","a","v","e"," ","t","h","e"," ","m","e","e","t","i","n",
        "g"," ","n","o","w","."," ","G","o","o","d","b","y","e","!">>,
    \* "I've muted my microphone."
    R_muted |->
      <<"I","'","v","e"," ","m","u","t","e","d"," ","m","y"," ","m","i","c","r","o","p","h",
        "o","n","e",".">>,
    \* "I've unmuted my microphone."
    R_unmuted |->
      <<"I","'","v","e"," ","u","n","m","u","t","e","d"," ","m","y"," ","m","i","c","r","o",
        "p","h","o","n","e",".">>,
    \* "I've started recording the meeting."
    R_record_started |->
      <<"I","'","v","e"," ","s","t","a","r","t","e","d"," ","r","e","c","o","r","d","i","n",
        "g"," ","t","h","e"," ","m","e","e","t","i","n","g",".">>,
    \* "I'm already recording the meeting."
    R_already_recording |->
      <<"I","'","m"," ","a","l","r","e","a","d","y"," ","r","e","c","o","r","d","i","n","g",
        " ","t","h","e"," ","m","e","e","t","i","n","g",".">>,
    \* "I've stopped recording the meeting. Recording saved to "
    R_record_stopped_prefix |->
      <<"I","'","v","e"," ","s","t","o","p","p","e","d"," ","r","e","c","o","r","d","i","n",
        "g"," ","t","h","e"," ","m","e","e","t","i","n","g","."," ","R","e","c","o","r","d",
        "i","n","g"," ","s","a","v","e","d"," ","t","o"," ">>,
    \* "I'm not currently recording the meeting."
    R_not_recording |->
      <<"I","'","m"," ","n","o","t"," ","c","u","r","r","e","n","t","l","y"," ","r","e","c",
        "o","r","d","i","n","g"," ","t","h","e"," ","m","e","e","t","i","n","g",".">>,
    \* "I've started transcribing the meeting."
    R_transcribe |->
      <<"I","'","v","e"," ","s","t","a","r","t","e","d"," ","t","r","a","n","s","c","r","i",
        "b","i","n","g"," ","t","h","e"," ","m","e","e","t","i","n","g",".">>,
    \* "I've stopped transcribing the meeting."
    R_stop_transcribing |->
      <<"I","'","v","e"," ","s","t","o","p","p","e","d"," ","t","r","a","n","s","c","r","i",
        "b","i","n","g"," ","t","h","e"," ","m","e","e","t","i","n","g",".">>,
    \* "I'm sorry, I don't understand that command. Try saying '"
    R_not_understood_prefix |->
      <<"I","'","m"," ","s","o","r","r","y",","," ","I"," ","d","o","n","'","t"," ","u","n",
        "d","e","r","s","t","a","n","d"," ","t","h","a","t"," ","c","o","m","m","a","n","d",
        "."," ","T","r","y"," ","s","a","y","i","n","g"," ","'">>,
    \* " help' for a list of commands."
    R_not_understood_suffix |->
      <<" ","h","e","l","p","'"," ","f","o","r"," ","a"," ","l","i","s","t"," ","o","f"," ",
        "c","o","m","m","a","n","d","s",".">>,
    \* "Here are the commands you can use (prefix with '"
    R_cr_help_prefix |->
      <<"H","e","r","e"," ","a","r","e"," ","t","h","e"," ","c","o","m","m","a","n","d","s",
        " ","y","o","u"," ","c","a","n"," ","u","s","e"," ","(","p","r","e","f","i","x"," ",
        "w","i","t","h"," ","'">>,
    \* "'):\n- summarize: Generate a summary of the meeting so far\n-..."
    R_cr_help_suffix |->
      <<"'",")",":","\\","n","-"," ","s","u","m","m","a","r","i","z","e",":"," ","G","e",
        "n","e","r","a","t","e"," ","a"," ","s","u","m","m","a","r","y"," ","o","f"," ","t",
        "h","e"," ","m","e","e","t","i","n","g"," ","s","o"," ","f","a","r","\\","n","-",
        " ","t","a","k","e"," ","n","o","t","e","s",":"," ","C","o","n","f","i","r","m"," ",
        "t","h","a","t"," ","I","'","m"," ","t","a","k","i","n","g"," ","n","o","t","e","s",
        "\\","n","-"," ","l","i","s","t"," ","p","a","r","t","i","c","i","p","a","n","t",
        "s",":"," ","S","h","o","w"," ","w","h","o","'","s"," ","i","n"," ","t","h","e"," ",
        "m","e","e","t","i","n","g","\\","n","-"," ","s","t","a","t","u","s",":"," ","S",
        "h","o","w"," ","m","y"," ","c","u","r","r","e","n","t"," ","s","t","a","t","u","s",
        "\\","n","-"," ","m","u","t","e","/","u","n","m","u","t","e",":"," ","C","o","n",
        "t","r","o","l"," ","m","y"," ","m","i","c","r","o","p","h","o","n","e","\\","n",
        "-"," ","r","e","c","o","r","d","/","s","t","o","p"," ","r","e","c","o","r","d","i",
        "n","g",":"," ","C","o","n","t","r","o","l"," ","a","u","d","i","o"," ","r","e","c",
        "o","r","d","i","n","g","\\","n","-"," ","t","r","a","n","s","c","r","i","b","e",
        "/","s","t","o","p"," ","t","r","a","n","s","c","r","i","b","i","n","g",":"," ","C",
        "o","n","t","r","o","l"," ","t","r","a","n","s","c","r","i","p","t","i","o","n",
        "\\","n","-"," ","l","e","a","v","e",":"," ","L","e","a","v","e"," ","t","h","e",
        " ","m","e","e","t","i","n","g">>,
    \* "Available commands:\n- Augment help: Show this help message\n..."
    R_ch_help |->
      <<"A","v","a","i","l","a","b","l","e"," ","c","o","m","m","a","n","d","s",":","\n",
        "-"," ","A","u","g","m","e","n","t"," ","h","e","l","p",":"," ","S","h","o","w"," ",
        "t","h","i","s"," ","h","e","l","p"," ","m","e","s","s","a","g","e","\n","-"," ",
        "A","u","g","m","e","n","t"," ","s","u","m","m","a","r","i","z","e",":"," ","G","e",
        "n","e","r","a","t","e"," ","a"," ","s","u","m","m","a","r","y"," ","o","f"," ","t",
        "h","e"," ","m","e","e","t","i","n","g"," ","s","o"," ","f","a","r","\n","-"," ",
        "A","u","g","m","e","n","t"," ","l","i","s","t"," ","p","a","r","t","i","c","i","p",
        "a","n","t","s",":"," ","S","h","o","w"," ","w","h","o","'","s"," ","i","n"," ","t",
        "h","e"," ","m","e","e","t","i","n","g","\n","-"," ","A","u","g","m","e","n","t",
        " ","s","t","a","t","u","s",":"," ","S","h","o","w"," ","t","h","e"," ","b","o","t",
        "'","s"," ","c","u","r","r","e","n","t"," ","s","t","a","t","u","s","\n","-"," ",
        "A","u","g","m","e","n","t"," ","l","e","a","v","e",":"," ","M","a","k","e"," ","t",
        "h","e"," ","b","o","t"," ","l","e","a","v","e"," ","t","h","e"," ","m","e","e","t",
        "i","n","g">>,
    \* "Current Status:"
    S_status_head |->
      <<"C","u","r","r","e","n","t"," ","S","t","a","t","u","s",":">>,
    \* "- In meeting: "
    S_in_meeting |->
      <<"-"," ","I","n"," ","m","e","e","t","i","n","g",":"," ">>,
    \* "- Recording: "
    S_recording |->
      <<"-"," ","R","e","c","o","r","d","i","n","g",":"," ">>,
    \* "- Transcript lines: "
    S_lines |->
      <<"-"," ","T","r","a","n","s","c","r","i","p","t"," ","l","i","n","e","s",":"," ">>,
    \* "True"
    S_True |->
      <<"T","r","u","e">>,
    \* "False"
    S_False |->
      <<"F","a","l","s","e">>,
    \* "None"
    S_None |->
      <<"N","o","n","e">>,
    \* "[12:00:00] "
    S_timestamp |->
      <<"[","1","2",":","0","0",":","0","0","]"," ">>,
    \* "recordings/meeting.wav"
    S_wav |->
      <<"r","e","c","o","r","d","i","n","g","s","/","m","e","e","t","i","n","g",".","w","a",
        "v">>,
    \* "\n"
    NL_escaped |->
      <<"\\","n">>,
    \* "\n"
    NL |->
      <<"\n">>,
    \* "0"
    d0 |->
      <<"0">>,
    \* "1"
    d1 |->
      <<"1">>,
    \* "2"
    d2 |->
      <<"2">>,
    \* "3"
    d3 |->
      <<"3">>,
    \* "4"
    d4 |->
      <<"4">>,
    \* "5"
    d5 |->
      <<"5">>,
    \* "6"
    d6 |->
      <<"6">>,
    \* "7"
    d7 |->
      <<"7">>,
    \* "8"
    d8 |->
      <<"8">>,
    \* "9"
    d9 |->
      <<"9">>,
    \* "Augment"
    AgentName |->
      <<"A","u","g","m","e","n","t">>,
    \* "Augment write to "
    Txt_write_to |->
      <<"A","u","g","m","e","n","t"," ","w","r","i","t","e"," ","t","o"," ">>,
    \* "Augment call "
    Txt_call |->
      <<"A","u","g","m","e","n","t"," ","c","a","l","l"," ">>,
    \* "sam@example.com"
    Pii_email |->
      <<"s","a","m","@","e","x","a","m","p","l","e",".","c","o","m">>,
    \* "555-123-4567"
    Pii_phone |->
      <<"5","5","5","-","1","2","3","-","4","5","6","7">>,
    \* "[EMAIL]"
    S_EMAIL |->
      <<"[","E","M","A","I","L","]">>,
    \* "[PHONE]"
    S_PHONE |->
      <<"[","P","H","O","N","E","]">>,
    \* "The roadmap review is on Friday."
    Ans_roadmap |->
      <<"T","h","e"," ","r","o","a","d","m","a","p"," ","r","e","v","i","e","w"," ","i","s",
        " ","o","n"," ","F","r","i","d","a","y",".">>,
    \* "I'm sorry, I encountered an error: "
    R_agent_error_prefix |->
      <<"I","'","m"," ","s","o","r","r","y",","," ","I"," ","e","n","c","o","u","n","t","e",
        "r","e","d"," ","a","n"," ","e","r","r","o","r",":"," ">>,
    \* "Request timed out."
    Err_timeout |->
      <<"R","e","q","u","e","s","t"," ","t","i","m","e","d"," ","o","u","t",".">>,
    \* "user"
    S_user |->
      <<"u","s","e","r">>,
    \* "Augment help me summarize"
    Txt_help_me_summarize |->
      <<"A","u","g","m","e","n","t"," ","h","e","l","p"," ","m","e"," ","s","u","m","m","a",
        "r","i","z","e">>,
    \* "help me summarize"
    Cmd_help_me_summarize |->
      <<"h","e","l","p"," ","m","e"," ","s","u","m","m","a","r","i","z","e">>,
    \* " "
    S_space |->
      <<" ">>,
    \* ", "
    S_comma_space |->
      <<","," ">>,
    \* ":"
    S_colon |->
      <<":">>
  ]

\* A text is kept as the list of the literals it is made of, the way an
\* f-string is written; Text gives its characters
RECURSIVE Text(_)
Text(t) == IF t = <<>> THEN <<>> ELSE Lit[Head(t)] \o Text(Tail(t))

(***************************************************************************)
(* Bounds of the model                                                     *)
(***************************************************************************)

\* chat messages the participants post
MaxPosts == 2
\* transcript lines the transcription delivers
MaxLines == 2
\* monitoring threads started
MaxStarts == 1
\* lines added to BrowserAutomation.meeting_transcript
MaxTranscript == 1

(***************************************************************************)
(* Program constants and inputs                                            *)
(***************************************************************************)

\* len(last_processed_messages) > 100
HistoryCap == 100
\* list(last_processed_messages)[-50:]
HistoryKeep == 50

\* config.get('google_meet.record_audio', True)
RecordAudio == TRUE

\* config.get('agent.trigger_word', 'Augment')
TriggerWord == <<"TriggerWord">>

\* the sender name process_chat_message takes for the bot's own messages
AssistantName == <<"AssistantName">>

\* config.get('google_meet.bot_email', '')
google_email == <<>>

Sam == <<"Sam">>
Jo == <<"Jo">>

\* the participants of the meeting other than the assistant
Users == {Sam, Jo}

\* the roster the participants panel shows
Roster == <<Sam, Jo>>

\* chat messages a participant can post
ChatTexts ==
  { <<"Txt_status">>, <<"Txt_stop_recording">>, <<"Txt_bare">>, <<"Txt_leave">>,
    <<"Txt_record">>, <<"Txt_backflip">>, <<"Txt_hello">> }

\* transcript lines the transcription delivers
SpokenLines ==
  { <<"Txt_status">>, <<"Txt_stop_recording">>, <<"Txt_bare">>, <<"Txt_bare_ws">>,
    <<"Txt_leave">>, <<"Txt_record">>, <<"Txt_backflip">>, <<"Txt_hello">> }

\* what follows the trigger word in the transcript lines
CommandTexts ==
  { <<"Cmd_status">>, <<"Cmd_stop_recording">>, <<"Cmd_leave">>,
    <<"Cmd_record">>, <<"Cmd_backflip">> }

\* transcript lines that name each registered command of CommandRecognizer,
\* and lines that several of its patterns match
CommandLines ==
  { <<"Txt_summarize">>, <<"Txt_take_notes">>, <<"Txt_list_participants">>,
    <<"Txt_help">>, <<"Txt_status">>, <<"Txt_leave">>, <<"Txt_mute">>,
    <<"Txt_unmute">>, <<"Txt_record">>, <<"Txt_stop_rec">>, <<"Txt_transcribe">>,
    <<"Txt_stop_transcribing">>, <<"Txt_help_me_leave">>,
    <<"Txt_status_and_summarize">>, <<"Txt_transcribe_and_record">>,
    <<"Txt_backflip">> }

\* utterances, typed or spoken, that differ in their capitals or have words
\* before the trigger word
RouteTexts ==
  { <<"Txt_help">>, <<"Txt_AUGMENT_help">>, <<"Txt_augment_Help">>,
    <<"Txt_Augment_HELP">>, <<"Txt_help_before_leave">>,
    <<"Txt_list_participants">> }

\* what follows the trigger word in these lines
RouteCommandTexts ==
  { <<"Cmd_summarize">>, <<"Cmd_take_notes">>, <<"Cmd_list_participants">>,
    <<"Cmd_help">>, <<"Cmd_mute">>, <<"Cmd_unmute">>, <<"Cmd_stop_rec">>,
    <<"Cmd_transcribe">>, <<"Cmd_stop_transcribing">>, <<"Cmd_help_me_leave">>,
    <<"Cmd_status_and_summarize">>, <<"Cmd_transcribe_and_record">>,
    <<"Cmd_Help">>, <<"Cmd_HELP">> }

\* utterances that name the commands both dispatchers know, one or two of
\* them
SharedLines ==
  { <<"Txt_help">>, <<"Txt_summarize">>, <<"Txt_list_participants">>,
    <<"Txt_status">>, <<"Txt_leave">>, <<"Txt_help_me_leave">>,
    <<"Txt_status_and_summarize">>, <<"Txt_help_me_summarize">> }

\* what follows the trigger word in these utterances
SharedCommandTexts ==
  { <<"Cmd_help">>, <<"Cmd_summarize">>, <<"Cmd_list_participants">>,
    <<"Cmd_status">>, <<"Cmd_leave">>, <<"Cmd_help_me_leave">>,
    <<"Cmd_status_and_summarize">>, <<"Cmd_help_me_summarize">> }

\* the caption that reaches BrowserAutomation.add_to_transcript
Caption == <<"S_timestamp", "Sam", "S_colon", "S_space", "Txt_hello">>

\* Python's None, where a text is expected
None == <<"None">>

VARIABLES
  wired,                   \* which dispatcher the application built over the
                           \* BrowserAutomation: "recognizer" or "chat_handler"
  channel,                 \* how the participants address the assistant in
                           \* this meeting: "chat" (typed), "spoken" or "both"
  starts,                  \* calls of start_monitoring that started a thread
  driver,                  \* BrowserAutomation.driver is not None
  is_in_meeting,           \* BrowserAutomation.is_in_meeting
  meeting_start_time,      \* BrowserAutomation.meeting_start_time is not None
  is_recording,            \* AudioHandler.is_recording
  meeting_transcript,      \* BrowserAutomation.meeting_transcript
  chat,                    \* the chat panel of the meeting: <<[sender, text]>>
  is_monitoring,           \* CommandRecognizer / ChatHandler .is_monitoring
  last_processed_message,  \* CommandRecognizer.last_processed_message
  last_processed_messages, \* the dedup history of the monitoring loop
  thread,                  \* the monitoring thread: [pc, batch, outbox]
  caller,                  \* the thread calling process_transcript_line
  leave_threads,           \* leave_after_delay threads that are asleep
  leave_count,             \* leave_after_delay threads started so far
  utterances,              \* [chat, spoken]: messages posted, lines delivered
  handled,                 \* per dedup key of the running loop: the message,
                           \* the handlers invoked and the replies caused
  spoken,                  \* the most recent call of process_transcript_line
                           \* and what it did
  loops,                   \* the monitoring loop threads start_monitoring has
                           \* started, each with its position
  memory,                  \* MeetingMemory.transcript and what the last call
                           \* of MeetingAgent.process_transcript returned
  audio,                   \* AudioProcessor: its flags, queues and threads
  client                   \* MeetClient with its AudioRouting

\* the state of the agent, the audio processor and the Meet client, which no
\* operation of the chat dispatchers touches
ext == << loops, memory, audio, client >>

\* the state of the browser automation and the chat dispatchers
base ==
  << wired, channel, starts, driver, is_in_meeting, meeting_start_time, is_recording,
     meeting_transcript, chat, is_monitoring, last_processed_message,
     last_processed_messages, thread, caller, leave_threads, leave_count,
     utterances, handled, spoken >>

vars == << base, ext >>

(***************************************************************************)
(* CommandRecognizer: the command registry and the handlers                *)
(***************************************************************************)

\* self.commands, in insertion order (the order .items() iterates in)
commands ==
  << [handler |-> "summarize",         words |-> <<W_summarize>>],
     [handler |-> "take_notes",        words |-> <<W_take, W_notes>>],
     [handler |-> "list_participants", words |-> <<W_list, W_participants>>],
     [handler |-> "help",              words |-> <<W_help>>],
     [handler |-> "status",            words |-> <<W_status>>],
     [handler |-> "leave",             words |-> <<W_leave>>],
     [handler |-> "mute",              words |-> <<W_mute>>],
     [handler |-> "unmute",            words |-> <<W_unmute>>],
     [handler |-> "record",            words |-> <<W_record>>],
     [handler |-> "stop_recording",    words |-> <<W_stop, W_recording>>],
     [handler |-> "transcribe",        words |-> <<W_transcribe>>],
     [handler |-> "stop_transcribing", words |-> <<W_stop, W_transcribing>>] >>

\* re.search(pattern, s) for the characters s
PatternMatches(p, s) ==
  IF Len(p.words) = 1
    THEN SearchWord(p.words[1], s)
    ELSE SearchPhrase(p.words[1], p.words[2], s)

\* str(True), str(False)
BoolStr(b) == IF b THEN <<"S_True">> ELSE <<"S_False">>

DigitNames == <<"d0","d1","d2","d3","d4","d5","d6","d7","d8","d9">>

\* str(n) for a natural number n
RECURSIVE NatStr(_)
NatStr(n) ==
  IF n < 10 THEN <<DigitNames[n + 1]>>
  ELSE NatStr(n \div 10) \o <<DigitNames[(n % 10) + 1]>>

\* ', '.join(names)
RECURSIVE JoinNames(_)
JoinNames(names) ==
  IF names = <<>> THEN <<>>
  ELSE IF Len(names) = 1 THEN names[1]
  ELSE names[1] \o <<"S_comma_space">> \o JoinNames(Tail(names))

\* what a handler leaves behind: the part of the world it may change, its
\* response, and whether a call it made raised (no handler catches anything)
Returned(w, response) == [w |-> w, response |-> response, raised |-> FALSE]
Raised(w) == [w |-> w, response |-> <<>>, raised |-> TRUE]

\* AudioHandler.start_recording: sets the flag, then starts the recording
\* thread; Thread.start() raising leaves the flag set
start_recording(w) == [w EXCEPT !.is_recording = TRUE]

\* AudioHandler.stop_recording: clears the flag, then joins the thread, closes
\* the stream and writes the file; any of these raising leaves the flag clear
stop_recording(w) == [w EXCEPT !.is_recording = FALSE]

\* threading.Thread(target=leave_after_delay).start()
start_leave_thread(w) == [w EXCEPT !.started = @ + 1]

R_summarize(transcript) ==
  IF transcript = <<>> THEN <<"R_no_transcript">> ELSE <<"R_summary">>

\* the reply with the names in the reverse of the order of the panel
R_participants_reversed(participants) ==
  IF participants = <<>>
    THEN <<"R_no_participants">>
    ELSE <<"R_participants_prefix">>
           \o JoinNames([i \in 1..Len(participants) |->
                           participants[Len(participants) + 1 - i]])

R_participants(participants) ==
  IF participants = <<>>
    THEN <<"R_no_participants">>
    ELSE <<"R_participants_prefix">> \o JoinNames(participants)

R_help == <<"R_cr_help_prefix">> \o TriggerWord \o <<"R_cr_help_suffix">>

\* the status report; the recognizer writes "\\n", two characters, between
\* its lines, the chat handler "\n"
R_status(newline, in_meeting, recording, transcript_lines) ==
  <<"S_status_head", newline, "S_in_meeting">> \o BoolStr(in_meeting)
    \o <<newline, "S_recording">> \o BoolStr(recording)
    \o <<newline, "S_lines">> \o NatStr(transcript_lines)

R_farewell == <<"R_farewell">>

CR_handle_leave(w, fault) ==
  IF fault THEN Raised(w) ELSE Returned(start_leave_thread(w), R_farewell)

CR_handle_record(w, fault) ==
  IF ~w.is_recording
    THEN IF fault THEN Raised(start_recording(w))
                  ELSE Returned(start_recording(w), <<"R_record_started">>)
    ELSE Returned(w, <<"R_already_recording">>)

CR_handle_stop_recording(w, fault) ==
  IF w.is_recording
    THEN IF fault THEN Raised(stop_recording(w))
                  ELSE Returned(stop_recording(w), <<"R_record_stopped_prefix", "S_wav">>)
    ELSE Returned(w, <<"R_not_recording">>)

\* handler(command_text), for the handler the registry binds to the pattern
CR_handle(handler, w, fault, participants) ==
  CASE handler = "summarize"         -> Returned(w, R_summarize(meeting_transcript))
    [] handler = "take_notes"        -> Returned(w, <<"R_take_notes">>)
    [] handler = "list_participants" -> Returned(w, R_participants(participants))
    [] handler = "help"              -> Returned(w, R_help)
    [] handler = "status"            ->
         Returned(w, R_status("NL_escaped", is_in_meeting, w.is_recording,
                              Len(meeting_transcript)))
    [] handler = "leave"             -> CR_handle_leave(w, fault)
    [] handler = "mute"              -> Returned(w, <<"R_muted">>)
    [] handler = "unmute"            -> Returned(w, <<"R_unmuted">>)
    [] handler = "record"            -> CR_handle_record(w, fault)
    [] handler = "stop_recording"    -> CR_handle_stop_recording(w, fault)
    [] handler = "transcribe"        -> Returned(w, <<"R_transcribe">>)
    [] handler = "stop_transcribing" -> Returned(w, <<"R_stop_transcribing">>)

\* the "not understood" message of _process_command
NotUnderstood ==
  <<"R_not_understood_prefix">> \o TriggerWord \o <<"R_not_understood_suffix">>

\* every reply the two dispatchers can send, and the greeting of join_meeting
Replies ==
  { <<"R_no_transcript">>, <<"R_summary">>, <<"R_take_notes">>,
    <<"R_no_participants">>, R_participants(Roster), R_help, <<"R_ch_help">>,
    R_farewell, <<"R_muted">>, <<"R_unmuted">>, <<"R_record_started">>,
    <<"R_already_recording">>, <<"R_record_stopped_prefix", "S_wav">>,
    <<"R_not_recording">>, <<"R_transcribe">>, <<"R_stop_transcribing">>,
    NotUnderstood, <<"Greeting">> }
  \cup { R_status(newline, in_meeting, recording, n) :
           newline \in {"NL_escaped", "NL"}, in_meeting \in BOOLEAN,
           recording \in BOOLEAN, n \in 0..MaxTranscript }

\* every text the model handles
Texts ==
  ChatTexts \cup SpokenLines \cup CommandTexts \cup Replies
    \cup CommandLines \cup RouteTexts \cup RouteCommandTexts
    \cup SharedLines \cup SharedCommandTexts

\* the text of Texts with the given characters; the empty text for none
Canonical(s) == IF s = <<>> THEN <<>> ELSE CHOOSE t \in Texts : Text(t) = s

\* what one call of _process_command did: the handlers it invoked, in order,
\* the responses it handed to _send_chat_message, and whether an exception
\* left it
Outcome(w, handlers, responses, raised) ==
  [w |-> w, handlers |-> handlers, responses |-> responses, raised |-> raised]

\* nothing was dispatched
NoOutcome(w) == Outcome(w, <<>>, <<>>, FALSE)

\* the for loop of _process_command without its return
RECURSIVE CR_matching_handlers_no_return(_, _)
CR_matching_handlers_no_return(s, i) ==
  IF i > Len(commands) THEN <<>>
  ELSE IF PatternMatches(commands[i], s)
    THEN <<commands[i].handler>> \o CR_matching_handlers_no_return(s, i + 1)
    ELSE CR_matching_handlers_no_return(s, i + 1)

\* the for loop of _process_command going on to the last matching pattern
RECURSIVE CR_matching_handlers_last_match(_, _)
CR_matching_handlers_last_match(s, i) ==
  IF i > Len(commands) THEN <<>>
  ELSE LET later == CR_matching_handlers_last_match(s, i + 1)
       IN  IF later # <<>> THEN later
           ELSE IF PatternMatches(commands[i], s)
             THEN <<commands[i].handler>>
             ELSE <<>>

\* the handlers the for loop of CommandRecognizer._process_command invokes for
\* the characters s, from the i-th pattern on; the loop returns after the
\* first match
RECURSIVE CR_matching_handlers(_, _)
CR_matching_handlers(s, i) ==
  IF i > Len(commands) THEN <<>>
  ELSE IF PatternMatches(commands[i], s)
    THEN <<commands[i].handler>>
    ELSE CR_matching_handlers(s, i + 1)

\* self.trigger_word.lower() in s.lower()
CR_has_trigger(s) == Contains(Lower(Text(TriggerWord)), Lower(s))

\* process_transcript_line: line[trigger_index + len(self.trigger_word):].strip()
CR_command_text(s) ==
  Strip(From(s, (Find(Lower(Text(TriggerWord)), Lower(s)) - 1) + Len(Text(TriggerWord))))

\* the trigger test and the matching handlers of every text, computed once
CR_of ==
  [t \in Texts |->
     [has_trigger |-> CR_has_trigger(Text(t)),
      handlers    |-> CR_matching_handlers(Text(t), 1)]] @@ <<>>

\* the command text of every transcript line that has the trigger word
CR_command_text_of ==
  [l \in SpokenLines \cup CommandLines \cup RouteTexts \cup SharedLines |->
     IF CR_has_trigger(Text(l)) THEN Canonical(CR_command_text(Text(l))) ELSE <<>>] @@ <<>>

\* response = handler(command_text); _send_chat_message(response), for each
\* handler the loop reaches; an exception ends the call
RECURSIVE CR_run(_, _, _, _)
CR_run(handlers, w, fault, participants) ==
  IF handlers = <<>> THEN NoOutcome(w)
  ELSE LET r == CR_handle(Head(handlers), w, fault, participants)
       IN  IF r.raised
             THEN Outcome(r.w, <<Head(handlers)>>, <<>>, TRUE)
             ELSE LET rest == CR_run(Tail(handlers), r.w, fault, participants)
                  IN  Outcome(rest.w,
                              <<Head(handlers)>> \o rest.handlers,
                              <<r.response>> \o rest.responses,
                              rest.raised)

\* _process_command without the lines that follow its for loop
CR_process_command_no_fallback(command_text, w, fault, participants) ==
  CR_run(CR_of[command_text].handlers, w, fault, participants)

\* CommandRecognizer._process_command(command_text)
CR_process_command(command_text, w, fault, participants) ==
  LET handlers == CR_of[command_text].handlers
  IN  IF handlers # <<>>
        THEN CR_run(handlers, w, fault, participants)
        ELSE Outcome(w, <<>>, <<NotUnderstood>>, FALSE)

\* process_chat_message: messages of the bot itself are not processed
CR_is_own_message(sender) ==
  Text(sender) = Text(AssistantName) \/ Text(sender) = Text(google_email)

(***************************************************************************)
(* ChatHandler: the command registry and the handlers                      *)
(***************************************************************************)

\* self.command_handlers, in insertion order
command_handlers ==
  << [handler |-> "help",              cmd |-> W_help],
     [handler |-> "summarize",         cmd |-> W_summarize],
     [handler |-> "list_participants", cmd |-> W_list_participants],
     [handler |-> "status",            cmd |-> W_status],
     [handler |-> "leave",             cmd |-> W_leave] >>

\* handler(command)
CH_handle(handler, w, fault, participants) ==
  CASE handler = "help"              -> Returned(w, <<"R_ch_help">>)
    [] handler = "summarize"         -> Returned(w, R_summarize(meeting_transcript))
    [] handler = "list_participants" -> Returned(w, R_participants(participants))
    [] handler = "status"            ->
         Returned(w, R_status("NL", is_in_meeting, w.is_recording,
                              Len(meeting_transcript)))
    [] handler = "leave"             -> CR_handle_leave(w, fault)

\* "augment" in message_text.lower()
CH_is_command(s) == Contains(W_augment, Lower(s))

\* parts = message_text.lower().split("augment", 1); parts[1].strip()
CH_command(s) ==
  Strip(From(Lower(s), (Find(W_augment, Lower(s)) - 1) + Len(W_augment)))

\* the handler the for loop of ChatHandler._process_command breaks on, from
\* the i-th entry on; the help handler when no entry is found
RECURSIVE CH_find_handler(_, _)
CH_find_handler(command, i) ==
  IF i > Len(command_handlers) THEN "help"
  ELSE IF Contains(command_handlers[i].cmd, command)
    THEN command_handlers[i].handler
    ELSE CH_find_handler(command, i + 1)

\* element.text.strip(), the command test and the handler of every text,
\* computed once; len(parts) < 2 when the text has no "augment"
CH_of ==
  [t \in Texts |->
     [stripped   |-> Canonical(Strip(Text(t))),
      is_command |-> CH_is_command(Text(t)),
      handlers   |-> IF Contains(W_augment, Lower(Text(t)))
                       THEN <<CH_find_handler(CH_command(Text(t)), 1)>>
                       ELSE <<>>]] @@ <<>>

\* ChatHandler._process_command(message_text)
CH_process_command(message_text, w, fault, participants) ==
  LET handlers == CH_of[message_text].handlers
  IN  IF handlers = <<>>
        THEN NoOutcome(w)
        ELSE LET r == CH_handle(handlers[1], w, fault, participants)
             IN  IF r.raised
                   THEN Outcome(r.w, handlers, <<>>, TRUE)
                   ELSE Outcome(r.w, handlers, <<r.response>>, FALSE)
(***************************************************************************)
(* The agent, the audio processor and the Meet client: initial state       *)
(***************************************************************************)

\* no monitoring loop thread has been started
NoLoops == <<>>

\* MeetingMemory.__init__: an empty transcript; no call of
\* MeetingAgent.process_transcript has returned yet
NewMemory ==
  [transcript |-> <<>>, end_time |-> FALSE, saved |-> [written |-> FALSE, transcript |-> <<>>],
   calls |-> 0,
   call |-> [speaker |-> <<>>, text |-> <<>>, run |-> [raised |-> FALSE, text |-> <<>>]],
   result |-> <<"no call">>]

\* AudioProcessor.__init__
NewAudio ==
  [is_processing |-> FALSE, is_speaking |-> FALSE,
   input_queue |-> <<>>, output_queue |-> 0,
   pc |-> "none", silence_frames |-> 0, voiced |-> FALSE,
   buffer |-> [chunks |-> 0, own |-> FALSE], transcribed |-> "nothing"]

\* MeetClient.__init__ with AudioRouting.__init__
NewClient ==
  [is_running |-> FALSE, thread |-> "none", modules |-> {},
   joins |-> 0, result |-> "none", left |-> FALSE]


(***************************************************************************)
(* State                                                                   *)
(***************************************************************************)

\* no line was handed to process_transcript_line yet
NoDelivery ==
  [line |-> <<>>, handlers |-> <<>>, responses |-> <<>>, raised |-> FALSE,
   again |-> FALSE]

\* the record of one call of process_transcript_line: the handlers invoked,
\* the responses handed to _send_chat_message, whether an exception left the
\* call, and whether the same line has since come again and was dropped as
\* equal to last_processed_message
Delivery(line, out) ==
  [line |-> line, handlers |-> out.handlers, responses |-> out.responses,
   raised |-> out.raised, again |-> FALSE]

\* the part of the world a handler may change: the recorder's flag and the
\* number of leave_after_delay threads the call started
World == [is_recording |-> is_recording, started |-> 0]

\* the responses of one call as they wait to be sent, the farewell with the
\* leave_after_delay thread its handler started (0: no thread)
Outbox(out) ==
  [i \in 1..Len(out.responses) |->
     [text  |-> out.responses[i],
      leave |-> IF out.responses[i] = R_farewell THEN leave_count + 1 ELSE 0]]

\* the state after the constructors of BrowserAutomation, AudioHandler, the
\* dispatcher, MeetingAgent, AudioProcessor and MeetClient have run
Constructed ==
  /\ starts = 0
  /\ driver = FALSE
  /\ is_in_meeting = FALSE
  /\ meeting_start_time = FALSE
  /\ is_recording = FALSE
  /\ meeting_transcript = <<>>
  /\ chat = <<>>
  /\ is_monitoring = FALSE
  /\ last_processed_message = None
  /\ last_processed_messages = {}
  /\ thread = [pc |-> "none", batch |-> <<>>, outbox |-> <<>>]
  /\ caller = [pc |-> "idle", outbox |-> <<>>]
  /\ leave_threads = {}
  /\ leave_count = 0
  /\ utterances = [chat |-> 0, spoken |-> 0]
  /\ handled = <<>>
  /\ spoken = NoDelivery
  /\ loops = NoLoops
  /\ memory = NewMemory
  /\ audio = NewAudio
  /\ client = NewClient

Init ==
  /\ wired \in {"recognizer", "chat_handler"}
  /\ channel \in IF wired = "recognizer" THEN {"chat", "spoken"} ELSE {"chat"}
  /\ Constructed

(***************************************************************************)
(* BrowserAutomation and AudioHandler                                      *)
(***************************************************************************)

\* _send_chat_message(message): with a driver, the message is typed into the
\* chat and the call returns True, or the chat button or the input is not
\* found in any of the three attempts and the call returns False; without a
\* driver every attempt raises inside the try and the call returns False
send_chat_message(message, found) ==
  IF driver /\ found
    THEN Append(chat, [sender |-> AssistantName, text |-> message])
    ELSE chat

\* join_meeting(url): initialize_driver when there is none; once in the
\* meeting, start the recorder and greet in the chat.  The model follows one
\* meeting: join_meeting is not called again once it has returned True
join_meeting(in_meeting, found) ==
  /\ ~meeting_start_time
  /\ driver' = TRUE
  /\ IF in_meeting
       THEN /\ is_in_meeting' = TRUE
            /\ meeting_start_time' = TRUE
            /\ is_recording' = (RecordAudio \/ is_recording)
            /\ chat' = IF found
                         THEN <<[sender |-> AssistantName, text |-> <<"Greeting">>]>>
                         ELSE <<>>
       ELSE UNCHANGED <<is_in_meeting, meeting_start_time, is_recording, chat>>
  /\ UNCHANGED <<ext, wired, channel, starts, meeting_transcript, is_monitoring, last_processed_message,
                 last_processed_messages, thread, caller, leave_threads,
                 leave_count, utterances, handled, spoken>>

\* leave_meeting(): stop the recorder, reset is_in_meeting, click leave or
\* close the window, then close(): driver.quit() and driver = None
leave_meeting ==
  IF ~driver
    THEN UNCHANGED <<driver, is_in_meeting, is_recording>>
    ELSE /\ is_recording' = IF is_in_meeting /\ RecordAudio THEN FALSE ELSE is_recording
         /\ is_in_meeting' = FALSE
         /\ driver' = FALSE

\* the thread started by _handle_leave: time.sleep(2), then leave_meeting()
leave_after_delay(id) ==
  /\ id \in leave_threads
  /\ leave_threads' = leave_threads \ {id}
  /\ leave_meeting
  /\ UNCHANGED <<ext, wired, channel, starts, meeting_start_time, meeting_transcript, chat, is_monitoring,
                 last_processed_message, last_processed_messages, thread, caller,
                 leave_count, utterances, handled, spoken>>

\* add_to_transcript(speaker, text): appends "[HH:MM:SS] speaker: text"
add_to_transcript ==
  /\ Len(meeting_transcript) < MaxTranscript
  /\ meeting_transcript' = Append(meeting_transcript, Caption)
  /\ UNCHANGED <<ext, wired, channel, starts, driver, is_in_meeting, meeting_start_time, is_recording, chat,
                 is_monitoring, last_processed_message, last_processed_messages,
                 thread, caller, leave_threads, leave_count, utterances, handled,
                 spoken>>

\* AudioHandler._record: an exception in the recording thread clears
\* is_recording
record_fails ==
  /\ is_recording
  /\ is_recording' = FALSE
  /\ UNCHANGED <<ext, wired, channel, starts, driver, is_in_meeting, meeting_start_time, meeting_transcript, chat,
                 is_monitoring, last_processed_message, last_processed_messages,
                 thread, caller, leave_threads, leave_count, utterances,
                 handled, spoken>>

\* a participant types a message into the chat of the meeting
post_chat_message(sender, text) ==
  /\ channel \in {"chat", "both"}
  /\ driver /\ is_in_meeting
  /\ utterances.chat < MaxPosts
  /\ utterances' = [utterances EXCEPT !.chat = @ + 1]
  /\ chat' = Append(chat, [sender |-> sender, text |-> text])
  /\ UNCHANGED <<ext, wired, channel, starts, driver, is_in_meeting, meeting_start_time, is_recording, meeting_transcript,
                 is_monitoring, last_processed_message, last_processed_messages,
                 thread, caller, leave_threads, leave_count, handled, spoken>>

\* get_participants(): the names the participants panel shows, [] when there
\* is no driver, when the panel is not found or when anything raises
get_participants == IF driver THEN {Roster, <<>>} ELSE {<<>>}

(***************************************************************************)
(* start_monitoring, stop_monitoring (the same in both classes)            *)
(***************************************************************************)

\* start_monitoring(): returns when already monitoring; else sets the flag
\* and starts the monitoring thread.  CommandRecognizer._monitor_chat begins
\* with an empty local history; ChatHandler keeps its history in the object.
\* The model starts a thread only after the previous one has exited.
start_monitoring ==
  /\ ~is_monitoring
  /\ thread.pc \in {"none", "exited"}
  /\ starts < MaxStarts
  /\ starts' = starts + 1
  /\ is_monitoring' = TRUE
  /\ thread' = [pc |-> "loop", batch |-> <<>>, outbox |-> <<>>]
  /\ IF wired = "recognizer"
       THEN last_processed_messages' = {} /\ handled' = <<>>
       ELSE UNCHANGED <<last_processed_messages, handled>>
  /\ UNCHANGED <<ext, wired, channel, driver, is_in_meeting, meeting_start_time, is_recording, meeting_transcript,
                 chat, last_processed_message, caller, leave_threads, leave_count,
                 utterances, spoken>>

\* stop_monitoring(): clears the flag; join(timeout=2) changes no state
stop_monitoring ==
  /\ is_monitoring
  /\ is_monitoring' = FALSE
  /\ UNCHANGED <<ext, wired, channel, starts, driver, is_in_meeting, meeting_start_time, is_recording, meeting_transcript,
                 chat, last_processed_message, last_processed_messages, thread,
                 caller, leave_threads, leave_count, utterances, handled, spoken>>

(***************************************************************************)
(* The dedup history                                                       *)
(***************************************************************************)

\* set(list(last_processed_messages)[-50:]) once the set holds more than 100
\* keys: a set has no insertion order, so any 50 of the keys may be kept
trimmed(history) ==
  IF Cardinality(history) > HistoryCap
    THEN {kept \in SUBSET history : Cardinality(kept) = HistoryKeep}
    ELSE {history}

\* the bookkeeping of a key of the history: the message, the handlers
\* invoked for it, the responses handed to _send_chat_message for it, and
\* whether a handler raised
observe(message_id, message, out) ==
  IF message_id \in last_processed_messages
    THEN handled
    ELSE handled @@ (message_id :>
           [sender |-> message.sender, text |-> message.text,
            handlers |-> out.handlers, responses |-> out.responses,
            raised |-> out.raised])

\* an except clause that ends the loop, as the one around the while loop does
after_exception_stop_loop(t) ==
  [thread |-> [t EXCEPT !.pc = "exited", !.batch = <<>>, !.outbox = <<>>],
   is_monitoring |-> FALSE]

\* what the except clause around the body of a monitoring loop leaves: the
\* loop goes on with its next iteration and is_monitoring is not touched
after_exception(t) ==
  [thread |-> [t EXCEPT !.pc = "loop", !.batch = <<>>, !.outbox = <<>>],
   is_monitoring |-> is_monitoring]

\* the effects of one call of _process_command on the recorder and on the
\* leave_after_delay threads
apply_outcome(out) ==
  /\ is_recording' = out.w.is_recording
  /\ leave_threads' = leave_threads \cup ((leave_count + 1)..(leave_count + out.w.started))
  /\ leave_count' = leave_count + out.w.started

(***************************************************************************)
(* CommandRecognizer                                                       *)
(***************************************************************************)

\* process_chat_message without its test for the trigger word
CR_process_chat_message_no_trigger_test(message, sender, fault, participants) ==
  IF ~is_monitoring \/ message = <<>> THEN NoOutcome(World)
  ELSE IF CR_is_own_message(sender) THEN NoOutcome(World)
  ELSE CR_process_command(message, World, fault, participants)

\* process_chat_message(message, sender), as called by _monitor_chat
CR_process_chat_message(message, sender, fault, participants) ==
  IF ~is_monitoring \/ message = <<>> THEN NoOutcome(World)
  ELSE IF CR_is_own_message(sender) THEN NoOutcome(World)
  ELSE IF CR_of[message].has_trigger
    THEN CR_process_command(message, World, fault, participants)
    ELSE NoOutcome(World)

\* f"{message.get('sender', 'Unknown')}:{message.get('text', '')}"
CR_message_id(message) == message.sender \o <<"S_colon">> \o message.text

\* the loop with a test that never reads is_monitoring: while True
CR_monitor_loop_forever ==
  /\ wired = "recognizer"
  /\ thread.pc = "loop"
  /\ thread' = [thread EXCEPT !.pc = "sleep"]
  /\ UNCHANGED <<ext, wired, channel, starts, driver, is_in_meeting, meeting_start_time, is_recording, meeting_transcript,
                 chat, is_monitoring, last_processed_message,
                 last_processed_messages, caller, leave_threads, leave_count,
                 utterances, handled, spoken>>

\* while self.is_monitoring and self.browser_automation: time.sleep(3)
CR_monitor_loop ==
  /\ wired = "recognizer"
  /\ thread.pc = "loop"
  /\ thread' = [thread EXCEPT !.pc = IF is_monitoring THEN "sleep" ELSE "exited"]
  /\ UNCHANGED <<ext, wired, channel, starts, driver, is_in_meeting, meeting_start_time, is_recording, meeting_transcript,
                 chat, is_monitoring, last_processed_message,
                 last_processed_messages, caller, leave_threads, leave_count,
                 utterances, handled, spoken>>

\* BrowserAutomation.get_chat_messages(): the messages the chat panel shows,
\* as dictionaries with the keys 'sender' and 'text'
get_chat_messages == IF driver THEN chat ELSE <<>>

\* chat_messages = self.browser_automation.get_chat_messages(): the call
\* returns the messages or raises
CR_get_chat_messages(fails) ==
  /\ wired = "recognizer"
  /\ thread.pc = "sleep"
  /\ IF fails
       THEN /\ thread' = after_exception(thread).thread
            /\ is_monitoring' = after_exception(thread).is_monitoring
       ELSE /\ thread' = [thread EXCEPT !.pc = "process", !.batch = get_chat_messages]
            /\ UNCHANGED is_monitoring
  /\ UNCHANGED <<ext, wired, channel, starts, driver, is_in_meeting, meeting_start_time,
                 is_recording, meeting_transcript, chat, last_processed_message,
                 last_processed_messages, caller, leave_threads, leave_count,
                 utterances, handled, spoken>>

\* one iteration of `for message in chat_messages`
CR_process_message(fault, participants) ==
  /\ wired = "recognizer"
  /\ thread.pc = "process"
  /\ thread.batch # <<>>
  /\ thread.outbox = <<>>
  /\ LET message == Head(thread.batch)
         message_id == CR_message_id(message)
         duplicate == message_id \in last_processed_messages
         out == IF duplicate THEN NoOutcome(World)
                ELSE CR_process_chat_message(message.text, message.sender,
                                             fault, participants)
     IN  /\ last_processed_messages' = last_processed_messages \cup {message_id}
         /\ handled' = observe(message_id, message, out)
         /\ apply_outcome(out)
         /\ IF out.raised
              THEN /\ thread' = after_exception(thread).thread
                   /\ is_monitoring' = after_exception(thread).is_monitoring
              ELSE /\ thread' = [thread EXCEPT !.batch = Tail(thread.batch),
                                               !.outbox = Outbox(out)]
                   /\ UNCHANGED is_monitoring
  /\ UNCHANGED <<ext, wired, channel, starts, driver, is_in_meeting, meeting_start_time, meeting_transcript, chat,
                 last_processed_message, caller, utterances, spoken>>

\* the end of one poll: the history is trimmed, the loop goes on
CR_end_poll ==
  /\ wired = "recognizer"
  /\ thread.pc = "process"
  /\ thread.batch = <<>>
  /\ thread.outbox = <<>>
  /\ \E kept \in trimmed(last_processed_messages) :
       /\ last_processed_messages' = kept
       /\ handled' = [k \in kept |-> handled[k]]
  /\ thread' = [thread EXCEPT !.pc = "loop"]
  /\ UNCHANGED <<ext, wired, channel, starts, driver, is_in_meeting, meeting_start_time, is_recording, meeting_transcript,
                 chat, is_monitoring, last_processed_message, caller,
                 leave_threads, leave_count, utterances, spoken>>

\* process_transcript_line that dispatches a command text also when it is
\* the one processed last
CR_process_transcript_line_no_dedup(line, fault, participants) ==
  /\ wired = "recognizer"
  /\ channel \in {"spoken", "both"}
  /\ caller.pc = "idle"
  /\ utterances' = [utterances EXCEPT !.spoken = @ + 1]
  /\ LET command_text == CR_command_text_of[line]
         accepted == /\ is_monitoring
                     /\ line # <<>>
                     /\ CR_of[line].has_trigger
                     /\ command_text # <<>>
         repeated == FALSE
         out == IF accepted
                  THEN CR_process_command(command_text, World, fault, participants)
                  ELSE NoOutcome(World)
     IN  /\ last_processed_message' =
               IF accepted THEN command_text ELSE last_processed_message
         /\ spoken' = IF repeated /\ line = spoken.line
                         THEN [spoken EXCEPT !.again = TRUE]
                         ELSE Delivery(line, out)
         /\ apply_outcome(out)
         /\ caller' = IF out.raised \/ out.responses = <<>>
                        THEN [pc |-> "idle", outbox |-> <<>>]
                        ELSE [pc |-> "send", outbox |-> Outbox(out)]
  /\ UNCHANGED <<ext, wired, channel, starts, driver, is_in_meeting, meeting_start_time, meeting_transcript, chat,
                 is_monitoring, last_processed_messages, thread, handled>>

\* process_transcript_line(line), up to the call of _send_chat_message
CR_process_transcript_line(line, fault, participants) ==
  /\ wired = "recognizer"
  /\ channel \in {"spoken", "both"}
  /\ caller.pc = "idle"
  /\ utterances' = [utterances EXCEPT !.spoken = @ + 1]
  /\ LET command_text == CR_command_text_of[line]
         accepted == /\ is_monitoring
                     /\ line # <<>>
                     /\ CR_of[line].has_trigger
                     /\ command_text # <<>>
                     /\ command_text # last_processed_message
         repeated == /\ is_monitoring
                     /\ CR_of[line].has_trigger
                     /\ command_text # <<>>
                     /\ command_text = last_processed_message
         out == IF accepted
                  THEN CR_process_command(command_text, World, fault, participants)
                  ELSE NoOutcome(World)
     IN  /\ last_processed_message' =
               IF accepted THEN command_text ELSE last_processed_message
         /\ spoken' = IF repeated /\ line = spoken.line
                         THEN [spoken EXCEPT !.again = TRUE]
                         ELSE Delivery(line, out)
         /\ apply_outcome(out)
         /\ caller' = IF out.raised \/ out.responses = <<>>
                        THEN [pc |-> "idle", outbox |-> <<>>]
                        ELSE [pc |-> "send", outbox |-> Outbox(out)]
  /\ UNCHANGED <<ext, wired, channel, starts, driver, is_in_meeting, meeting_start_time, meeting_transcript, chat,
                 is_monitoring, last_processed_messages, thread, handled>>

\* process_transcript_line for one of the MaxLines lines of a meeting
process_transcript_line(line, fault, participants) ==
  /\ utterances.spoken < MaxLines
  /\ CR_process_transcript_line(line, fault, participants)

\* the call of _send_chat_message that ends process_transcript_line
caller_send(found) ==
  /\ caller.pc = "send"
  /\ chat' = send_chat_message(Head(caller.outbox).text, found)
  /\ caller' = IF Tail(caller.outbox) = <<>>
                 THEN [pc |-> "idle", outbox |-> <<>>]
                 ELSE [caller EXCEPT !.outbox = Tail(caller.outbox)]
  /\ UNCHANGED <<ext, wired, channel, starts, driver, is_in_meeting, meeting_start_time, is_recording, meeting_transcript,
                 is_monitoring, last_processed_message, last_processed_messages,
                 thread, leave_threads, leave_count, utterances, handled, spoken>>

\* the call of _send_chat_message that ends _process_command in the
\* monitoring thread (ChatHandler: through _send_chat_response)
thread_send(found) ==
  /\ thread.pc = "process"
  /\ thread.outbox # <<>>
  /\ chat' = send_chat_message(Head(thread.outbox).text, found)
  /\ thread' = [thread EXCEPT !.outbox = Tail(thread.outbox)]
  /\ UNCHANGED <<ext, wired, channel, starts, driver, is_in_meeting, meeting_start_time, is_recording, meeting_transcript,
                 is_monitoring, last_processed_message, last_processed_messages,
                 caller, leave_threads, leave_count, utterances, handled, spoken>>

(***************************************************************************)
(* ChatHandler                                                             *)
(***************************************************************************)

\* while self.is_monitoring and self.browser_automation and
\* self.browser_automation.driver
CH_monitor_loop ==
  /\ wired = "chat_handler"
  /\ thread.pc = "loop"
  /\ thread' = [thread EXCEPT !.pc = IF is_monitoring /\ driver THEN "check" ELSE "exited"]
  /\ UNCHANGED <<ext, wired, channel, starts, driver, is_in_meeting, meeting_start_time, is_recording, meeting_transcript,
                 chat, is_monitoring, last_processed_message,
                 last_processed_messages, caller, leave_threads, leave_count,
                 utterances, handled, spoken>>

\* element.text.strip() of the chat messages found, empty ones skipped
RECURSIVE CH_all_messages(_)
CH_all_messages(messages) ==
  IF messages = <<>> THEN <<>>
  ELSE LET message_text == CH_of[Head(messages).text].stripped
       IN  IF message_text = <<>>
             THEN CH_all_messages(Tail(messages))
             ELSE <<[sender |-> Head(messages).sender, text |-> message_text]>>
                  \o CH_all_messages(Tail(messages))

\* _check_for_commands(), up to the loop over all_messages: returns at once
\* without a driver; opening the chat panel or reading the elements may raise
CH_check_for_commands(fails) ==
  /\ wired = "chat_handler"
  /\ thread.pc = "check"
  /\ IF ~driver
       THEN /\ thread' = [thread EXCEPT !.pc = "loop"]
            /\ UNCHANGED is_monitoring
       ELSE IF fails
         THEN /\ thread' = after_exception(thread).thread
              /\ is_monitoring' = after_exception(thread).is_monitoring
         ELSE /\ thread' = [thread EXCEPT !.pc = "process",
                                          !.batch = CH_all_messages(chat)]
              /\ UNCHANGED is_monitoring
  /\ UNCHANGED <<ext, wired, channel, starts, driver, is_in_meeting, meeting_start_time,
                 is_recording, meeting_transcript, chat, last_processed_message,
                 last_processed_messages, caller, leave_threads, leave_count,
                 utterances, handled, spoken>>

\* one iteration of `for message_text in all_messages`
CH_process_message(fault, participants) ==
  /\ wired = "chat_handler"
  /\ thread.pc = "process"
  /\ thread.batch # <<>>
  /\ thread.outbox = <<>>
  /\ LET message == Head(thread.batch)
         message_id == message.text
         duplicate == message_id \in last_processed_messages
         out == IF ~duplicate /\ CH_of[message.text].is_command
                  THEN CH_process_command(message.text, World, fault, participants)
                  ELSE NoOutcome(World)
     IN  /\ last_processed_messages' = last_processed_messages \cup {message_id}
         /\ handled' = observe(message_id, message, out)
         /\ apply_outcome(out)
         /\ IF out.raised
              THEN /\ thread' = after_exception(thread).thread
                   /\ is_monitoring' = after_exception(thread).is_monitoring
              ELSE /\ thread' = [thread EXCEPT !.batch = Tail(thread.batch),
                                               !.outbox = Outbox(out)]
                   /\ UNCHANGED is_monitoring
  /\ UNCHANGED <<ext, wired, channel, starts, driver, is_in_meeting, meeting_start_time, meeting_transcript, chat,
                 last_processed_message, caller, utterances, spoken>>

\* the end of _check_for_commands: the history is trimmed; time.sleep(2)
CH_end_check ==
  /\ wired = "chat_handler"
  /\ thread.pc = "process"
  /\ thread.batch = <<>>
  /\ thread.outbox = <<>>
  /\ \E kept \in trimmed(last_processed_messages) :
       /\ last_processed_messages' = kept
       /\ handled' = [k \in kept |-> handled[k]]
  /\ thread' = [thread EXCEPT !.pc = "loop"]
  /\ UNCHANGED <<ext, wired, channel, starts, driver, is_in_meeting, meeting_start_time, is_recording, meeting_transcript,
                 chat, is_monitoring, last_processed_message, caller,
                 leave_threads, leave_count, utterances, spoken>>

(***************************************************************************)
(* The system                                                              *)
(***************************************************************************)

\* the meeting, the application that owns the dispatcher, and the sends of
\* the monitoring thread
Meeting ==
  \/ \E in_meeting \in BOOLEAN, found \in BOOLEAN : join_meeting(in_meeting, found)
  \/ \E id \in leave_threads : leave_after_delay(id)
  \/ add_to_transcript
  \/ record_fails
  \/ \E sender \in Users, text \in ChatTexts : post_chat_message(sender, text)
  \/ start_monitoring
  \/ stop_monitoring
  \/ \E found \in BOOLEAN : thread_send(found)

\* CommandRecognizer: the monitoring thread and the transcript path
Recognizer ==
  \/ CR_monitor_loop
  \/ \E fails \in BOOLEAN : CR_get_chat_messages(fails)
  \/ \E fault \in BOOLEAN, participants \in get_participants :
       CR_process_message(fault, participants)
  \/ CR_end_poll
  \/ \E line \in SpokenLines, fault \in BOOLEAN, participants \in get_participants :
       process_transcript_line(line, fault, participants)
  \/ \E found \in BOOLEAN : caller_send(found)

\* ChatHandler: the monitoring thread
ChatHandler ==
  \/ CH_monitor_loop
  \/ \E fails \in BOOLEAN : CH_check_for_commands(fails)
  \/ \E fault \in BOOLEAN, participants \in get_participants :
       CH_process_message(fault, participants)
  \/ CH_end_check

Next == Meeting \/ Recognizer \/ ChatHandler

Spec == Init /\ [][Next]_vars

\* a meeting whose application has built a ChatHandler
InitChatHandler == Init /\ wired = "chat_handler"

NextChatHandler == Meeting \/ ChatHandler

SpecChatHandler == InitChatHandler /\ [][NextChatHandler]_vars

\* a meeting whose application has built a CommandRecognizer
InitRecognizer == Init /\ wired = "recognizer"

NextRecognizer == Meeting \/ Recognizer

SpecRecognizer == InitRecognizer /\ [][NextRecognizer]_vars

(***************************************************************************)
(* What the claims speak about                                             *)
(***************************************************************************)

\* the chat messages the running monitoring loop has looked at, each with
\* what its first observation caused
Observed == {handled[k] : k \in DOMAIN handled}

\* the keys the monitoring loop adds to its history in this step
Fresh == DOMAIN handled' \ DOMAIN handled

\* the dedup key of the chat message the monitoring loop is about to look at
NextKey ==
  IF wired = "recognizer"
    THEN CR_message_id(Head(thread.batch))
    ELSE Head(thread.batch).text

\* the monitoring loop is looking again at a message whose key is in its
\* dedup history
SeenAgain(k) ==
  /\ thread.pc = "process"
  /\ thread.batch # <<>>
  /\ thread.outbox = <<>>
  /\ k \in last_processed_messages
  /\ NextKey = k

\* the texts that hold the configured trigger word, whatever their case
MentionsTrigger ==
  [t \in Texts |-> Contains(Lower(Text(TriggerWord)), Lower(Text(t)))] @@ <<>>

\* the texts in which only white space follows the trigger word
BareTrigger ==
  [t \in Texts |->
     /\ Contains(Lower(Text(TriggerWord)), Lower(Text(t)))
     /\ \A i \in 1..Len(CR_command_text(Text(t))) :
          CR_command_text(Text(t))[i] \in WhiteSpace] @@ <<>>

\* the texts that hold the phrase "stop recording"
MentionsStopRecording ==
  [t \in Texts |-> SearchPhrase(W_stop, W_recording, Text(t))] @@ <<>>

\* the texts that match no pattern of CommandRecognizer.commands
CR_unmatched ==
  [t \in Texts |->
     \A i \in 1..Len(commands) : ~PatternMatches(commands[i], Text(t))] @@ <<>>

\* the texts that hold "augment" and after it no key of
\* ChatHandler.command_handlers
CH_unmatched ==
  [t \in Texts |->
     /\ Contains(W_augment, Lower(Text(t)))
     /\ \A i \in 1..Len(command_handlers) :
          ~Contains(command_handlers[i].cmd, CH_command(Text(t)))] @@ <<>>

\* the dispatcher finds no registered command in a chat message that holds
\* the trigger word
Unmatched(t) ==
  IF wired = "recognizer"
    THEN MentionsTrigger[t] /\ CR_unmatched[t]
    ELSE CH_unmatched[t]

\* a chat message passes the filters of the dispatcher: it is new to the
\* history, holds the trigger word and, for the recognizer, comes from a
\* participant while monitoring is on
ChatPasses(d) ==
  IF wired = "recognizer"
    THEN /\ is_monitoring
         /\ MentionsTrigger[d.text]
         /\ ~CR_is_own_message(d.sender)
    ELSE MentionsTrigger[d.text]

\* a transcript line passes the filters of process_transcript_line
SpokenPasses(line) ==
  /\ is_monitoring
  /\ MentionsTrigger[line]
  /\ ~BareTrigger[line]
  /\ CR_command_text_of[line] # last_processed_message

\* this step is a call of process_transcript_line
SpokenStep == utterances'.spoken # utterances.spoken

\* one handler ran and one response was handed to _send_chat_message
OneHandlerOneReply(d) == Len(d.handlers) = 1 /\ Len(d.responses) = 1

\* nothing ran, nothing was handed to _send_chat_message
NoAction(d) == d.handlers = <<>> /\ d.responses = <<>>

(***************************************************************************)
(* The claims                                                              *)
(***************************************************************************)

\* C1: a command that the monitoring loop meets again while its key is in
\* the dedup history, and a transcript line that is delivered again right
\* after itself, has caused exactly one handler invocation and exactly one
\* reply.
C1_DedupOneReply ==
  /\ \A k \in DOMAIN handled :
       (SeenAgain(k) /\ handled[k].handlers # <<>>) => OneHandlerOneReply(handled[k])
  /\ (spoken.again /\ spoken.handlers # <<>>) => OneHandlerOneReply(spoken)

\* C2: a command text that holds the phrase "stop recording" is dispatched by
\* CommandRecognizer._process_command to the stop-recording handler and never
\* to the record handler.
C2_StopRecordingPrecedence ==
  (wired = "recognizer" /\ spoken.line # <<>> /\ MentionsStopRecording[spoken.line]
     /\ spoken.handlers # <<>>)
    => spoken.handlers = <<"stop_recording">>

\* C3: an utterance, spoken or typed, in which nothing or only white space
\* follows the trigger word invokes no handler and gets no reply.
C3_BareTrigger ==
  /\ \A d \in Observed : BareTrigger[d.text] => NoAction(d)
  /\ (spoken.line # <<>> /\ BareTrigger[spoken.line]) => NoAction(spoken)

\* C4: a chat message the assistant itself has sent invokes no handler and
\* gets no reply when the monitoring loop observes it.
C4_SelfEcho ==
  \A d \in Observed : d.sender = AssistantName => NoAction(d)

\* C5: leave_meeting, run by the leave_after_delay thread that a leave
\* handler has started for a command of the chat, does not begin while the
\* farewell of that handler still waits to be typed into the chat.
C5_FarewellBeforeLeave ==
  \A i \in 1..Len(thread.outbox) :
    thread.outbox[i].leave # 0 => thread.outbox[i].leave \in leave_threads

\* C6: when a call made inside a command handler raises, the exception does
\* not leave the dispatch call: the dispatch ends with a reply.
C6_Containment ==
  /\ \A d \in Observed : ~d.raised
  /\ ~spoken.raised

\* the body of the monitoring loop raises in this step: reading the chat
\* does, or the dispatch of a message that is new to the history does
ExceptionStep ==
  \/ thread.pc = "sleep" /\ thread'.pc \notin {"sleep", "process"}
  \/ thread.pc = "check" /\ driver /\ thread'.pc \notin {"check", "process"}
  \/ \E k \in Fresh : handled'[k].raised

\* C7: an exception raised while the monitoring loop reads the chat or
\* processes a message does not end the loop: the loop goes on to its next
\* iteration and the exception does not change is_monitoring.
C7_LoopSurvival ==
  [][ExceptionStep => (thread'.pc = "loop" /\ is_monitoring' = is_monitoring)]_vars

\* a dispatch has raised, monitoring is on, and the loop is processing the
\* messages of a later poll
C7_Witness ==
  /\ is_monitoring
  /\ thread.pc = "process"
  /\ thread.batch # <<>>
  /\ \E d \in Observed : d.raised

\* C8: an utterance that passes the filters runs exactly one handler or gets
\* the single "not understood" reply; no utterance runs two handlers or gets
\* two replies.
C8_OneHandlerPerEvent ==
  [][/\ \A k \in Fresh :
          LET d == handled'[k]
          IN  /\ Len(d.handlers) <= 1
              /\ Len(d.responses) <= 1
              /\ ChatPasses(d) =>
                    \/ Len(d.handlers) = 1
                    \/ d.handlers = <<>> /\ d.responses = <<NotUnderstood>>
     /\ SpokenStep =>
          /\ Len(spoken'.handlers) <= 1
          /\ Len(spoken'.responses) <= 1
          /\ SpokenPasses(spoken'.line) =>
                \/ Len(spoken'.handlers) = 1
                \/ spoken'.handlers = <<>> /\ spoken'.responses = <<NotUnderstood>>
    ]_vars

\* a text that matches the patterns record and stop\s+recording has run one
\* handler and got one reply, in the chat or on the transcript path
C8_Witness ==
  /\ wired = "recognizer"
  /\ \/ \E d \in Observed :
          MentionsStopRecording[d.text] /\ OneHandlerOneReply(d)
     \/ /\ spoken.line # <<>>
        /\ MentionsStopRecording[spoken.line]
        /\ OneHandlerOneReply(spoken)

C10_NoTriggerNoAction ==
  /\ \A d \in Observed : ~MentionsTrigger[d.text] => NoAction(d)
  /\ (spoken.line # <<>> /\ ~MentionsTrigger[spoken.line]) => NoAction(spoken)

\* the monitoring loop has looked at "hello everyone" typed by a
\* participant while monitoring was on
C10_Witness ==
  /\ is_monitoring
  /\ \E d \in Observed : d.text = <<"Txt_hello">> /\ d.sender \in Users

(***************************************************************************)
(* Leaving the meeting                                                     *)
(***************************************************************************)

\* the owner of the BrowserAutomation calls leave_meeting() itself (the
\* finally clause of the applications, MeetClient.leave_meeting): nothing in
\* leave_meeting or close waits for the monitoring thread or for a
\* leave_after_delay thread
owner_leave_meeting ==
  /\ driver
  /\ leave_meeting
  /\ UNCHANGED <<ext, wired, channel, starts, meeting_start_time, meeting_transcript, chat, is_monitoring,
                 last_processed_message, last_processed_messages, thread, caller,
                 leave_threads, leave_count, utterances, handled, spoken>>

NextLeave == Meeting \/ ChatHandler \/ owner_leave_meeting

\* a meeting with a ChatHandler that its owner may leave at any moment
SpecLeave == InitChatHandler /\ [][NextLeave]_vars

\* C11: whenever the browser driver is released after stop_monitoring has
\* been called (or monitoring never began), the monitoring thread has
\* terminated (or was never started) and no leave_after_delay thread is
\* still in flight.
C11_StopBeforeRelease ==
  [][(driver /\ ~driver' /\ ~is_monitoring)
       => (thread'.pc \in {"none", "exited"} /\ leave_threads' = {})]_vars

(***************************************************************************)
(* Replies and the transcript                                              *)
(***************************************************************************)

\* add_to_transcript(speaker, text): the line f"[{timestamp}] {speaker}: {text}"
transcript_line(speaker, text) ==
  <<"S_timestamp">> \o speaker \o <<"S_colon", "S_space">> \o text

\* a step in which the dispatcher hands the reply at the head of an outbox
\* to _send_chat_message
ReplyStep ==
  \/ thread.outbox # <<>> /\ thread'.outbox = Tail(thread.outbox)
  \/ caller.pc = "send" /\ caller' # caller

\* the reply handed over in such a step
ReplyText ==
  IF thread.outbox # <<>> /\ thread'.outbox = Tail(thread.outbox)
    THEN Head(thread.outbox).text
    ELSE Head(caller.outbox).text

\* C12: every step that emits a reply of the dispatcher into the chat also
\* appends that reply to the meeting transcript, as one line spoken by the
\* assistant.
C12_ReplyInTranscript ==
  [][(ReplyStep /\ chat' # chat)
       => meeting_transcript' =
            Append(meeting_transcript, transcript_line(AssistantName, ReplyText))]_vars

(***************************************************************************)
(* The registered commands, one by one                                     *)
(***************************************************************************)

\* a meeting in which a CommandRecognizer is handed the lines of CommandLines
InitCommands == Init /\ wired = "recognizer" /\ channel = "spoken"

NextCommands ==
  \/ \E in_meeting \in BOOLEAN, found \in BOOLEAN : join_meeting(in_meeting, found)
  \/ \E id \in leave_threads : leave_after_delay(id)
  \/ add_to_transcript
  \/ start_monitoring
  \/ \E line \in CommandLines, fault \in BOOLEAN, participants \in get_participants :
       process_transcript_line(line, fault, participants)
  \/ \E found \in BOOLEAN : caller_send(found)

SpecCommands == InitCommands /\ [][NextCommands]_vars

\* the order in which the patterns are tested, as the handlers they select
ListedOrder ==
  << "summarize", "take_notes", "list_participants", "help", "status", "leave",
     "mute", "unmute", "record", "stop_recording", "transcribe",
     "stop_transcribing" >>

\* for every command text, the positions of the patterns that match it
Matching ==
  [t \in CommandTexts \cup RouteCommandTexts |->
     {i \in 1..Len(commands) : PatternMatches(commands[i], Text(t))}] @@ <<>>

\* the least position of a non-empty set of positions
Earliest(positions) == CHOOSE i \in positions : \A j \in positions : i <= j

\* C13: the patterns are registered in the order summarize, take notes, list
\* participants, help, status, leave, mute, unmute, record, stop recording,
\* transcribe, stop transcribing, and every command text that is dispatched
\* and matches one or several patterns invokes the handler of the earliest
\* matching pattern in that order, and no other.
C13_FirstMatchWins ==
  [][(SpokenStep /\ SpokenPasses(spoken'.line))
       => /\ [i \in 1..Len(commands) |-> commands[i].handler] = ListedOrder
          /\ LET positions == Matching[CR_command_text_of[spoken'.line]]
             IN  positions # {}
                   => spoken'.handlers = <<ListedOrder[Earliest(positions)]>>]_vars

\* a command text that matches several patterns has been dispatched
C13_Witness ==
  /\ spoken.line \in CommandLines
  /\ Cardinality(Matching[CR_command_text_of[spoken.line]]) >= 2
  /\ Len(spoken.handlers) = 1
  /\ ~spoken.raised

(***************************************************************************)
(* Capitals, and words before the trigger word                             *)
(***************************************************************************)

\* a meeting, with either dispatcher, whose participants type or say the
\* utterances of RouteTexts
NextRoute ==
  \/ \E in_meeting \in BOOLEAN, found \in BOOLEAN : join_meeting(in_meeting, found)
  \/ \E id \in leave_threads : leave_after_delay(id)
  \/ start_monitoring
  \/ \E sender \in Users, text \in RouteTexts : post_chat_message(sender, text)
  \/ \E found \in BOOLEAN : thread_send(found)
  \/ CR_monitor_loop
  \/ \E fails \in BOOLEAN : CR_get_chat_messages(fails)
  \/ \E fault \in BOOLEAN, participants \in get_participants :
       CR_process_message(fault, participants)
  \/ CR_end_poll
  \/ \E line \in RouteTexts, fault \in BOOLEAN, participants \in get_participants :
       process_transcript_line(line, fault, participants)
  \/ \E found \in BOOLEAN : caller_send(found)
  \/ CH_monitor_loop
  \/ \E fails \in BOOLEAN : CH_check_for_commands(fails)
  \/ \E fault \in BOOLEAN, participants \in get_participants :
       CH_process_message(fault, participants)
  \/ CH_end_check

SpecRoute == Init /\ [][NextRoute]_vars

\* "Augment help" in four capitalisations
HelpVariants ==
  { <<"Txt_help">>, <<"Txt_AUGMENT_help">>, <<"Txt_augment_Help">>,
    <<"Txt_Augment_HELP">> }

\* a chat message reaches the dispatch: the recognizer is monitoring and the
\* message is not one of the assistant's own
ChatReaches(d) ==
  wired = "recognizer" => (is_monitoring /\ ~CR_is_own_message(d.sender))

\* a transcript line reaches the dispatch: the recognizer is monitoring and
\* the command text is not the one processed last
SpokenReaches(line) ==
  is_monitoring /\ CR_command_text_of[line] # last_processed_message

\* C14: "Augment help" is dispatched to the help handler in every
\* capitalisation of the trigger word and of the keyword, when it is typed
\* into the chat of either dispatcher and when it is spoken.
C14_CaseInsensitive ==
  [][/\ \A k \in Fresh :
          LET d == handled'[k]
          IN  (d.text \in HelpVariants /\ ChatReaches(d)) => d.handlers = <<"help">>
     /\ (SpokenStep /\ spoken'.line \in HelpVariants /\ SpokenReaches(spoken'.line))
          => spoken'.handlers = <<"help">>
    ]_vars

\* an utterance whose capitals differ from those of the trigger word or of
\* the keyword has been dispatched to the help handler
C14_Witness ==
  \/ \E d \in Observed :
       d.text \in HelpVariants \ {<<"Txt_help">>} /\ d.handlers = <<"help">>
  \/ spoken.line \in HelpVariants \ {<<"Txt_help">>} /\ spoken.handlers = <<"help">>

(***************************************************************************)
(* List participants                                                       *)
(***************************************************************************)

\* the monitoring thread takes up a chat message with this text that is new
\* to its history
TakesUp(text) ==
  /\ thread.pc = "process"
  /\ thread.batch # <<>>
  /\ thread.outbox = <<>>
  /\ Head(thread.batch).text = text
  /\ NextKey \notin last_processed_messages

\* C15: a chat message "Augment list participants" of a participant is
\* answered with exactly one reply: "Current participants: Sam, Jo" when the
\* participants panel shows Sam and Jo, in this order, and the "couldn't
\* detect any participants" text when it shows nobody.
C15_ListParticipants ==
  [][\A fault \in BOOLEAN, participants \in {Roster, <<>>} :
       (/\ TakesUp(<<"Txt_list_participants">>)
        /\ ChatReaches(Head(thread.batch))
        /\ \/ CR_process_message(fault, participants)
           \/ CH_process_message(fault, participants))
         => /\ Len(thread'.outbox) = 1
            /\ Text(thread'.outbox[1].text) =
                 IF participants = <<>>
                   THEN Text(<<"R_no_participants">>)
                   ELSE Text(<<"Say_participants_Sam_Jo">>)
    ]_vars

\* "Augment list participants" was typed while the panel showed Sam and Jo,
\* and its reply is waiting to be sent or is in the chat
C15_Witness ==
  /\ \E d \in Observed :
       /\ d.text = <<"Txt_list_participants">>
       /\ d.handlers = <<"list_participants">>
       /\ d.responses = <<<<"R_participants_prefix">> \o Sam \o <<"S_comma_space">> \o Jo>>
  /\ \E i \in 1..Len(chat) :
       /\ chat[i].sender = AssistantName
       /\ Text(chat[i].text) = Text(<<"Say_participants_Sam_Jo">>)

\* for every text, what follows the first occurrence of the trigger word, in
\* whatever case, with the white space at its ends removed
AfterTrigger ==
  [t \in Texts |->
     LET s == Text(t)
         trigger == Lower(Text(TriggerWord))
     IN  IF Contains(trigger, Lower(s))
           THEN Strip(From(s, (Find(trigger, Lower(s)) - 1) + Len(trigger)))
           ELSE <<>>] @@ <<>>

\* the handlers each dispatcher selects for the characters of a command text
SelectedFor ==
  [t \in Texts |->
     LET after == AfterTrigger[t]
         patterns == {i \in 1..Len(commands) : PatternMatches(commands[i], after)}
         keys == {i \in 1..Len(command_handlers) :
                    Contains(command_handlers[i].cmd, Lower(after))}
     IN  [recognizer   |-> IF patterns = {} THEN <<>>
                           ELSE <<commands[Earliest(patterns)].handler>>,
          chat_handler |-> IF keys = {} THEN <<"help">>
                           ELSE <<command_handlers[Earliest(keys)].handler>>]] @@ <<>>

\* C16: the handler of an utterance that holds the trigger word is chosen
\* from the text after the first occurrence of the trigger word alone: the
\* words before the trigger word have no part in the choice, in the chat of
\* either dispatcher and on the transcript path ("help! Augment leave" is
\* dispatched to leave).
C16_AfterTriggerOnly ==
  [][/\ \A k \in Fresh :
          LET d == handled'[k]
          IN  (MentionsTrigger[d.text] /\ ChatReaches(d))
                => d.handlers = SelectedFor[d.text][wired]
     /\ (SpokenStep /\ MentionsTrigger[spoken'.line] /\ SpokenReaches(spoken'.line))
          => spoken'.handlers = SelectedFor[spoken'.line].recognizer
    ]_vars

\* for each registered command, in the listed order, the transcript line
\* that says the trigger word and exactly the phrase of the command
PhraseLines ==
  << <<"Txt_summarize">>, <<"Txt_take_notes">>, <<"Txt_list_participants">>,
     <<"Txt_help">>, <<"Txt_status">>, <<"Txt_leave">>, <<"Txt_mute">>,
     <<"Txt_unmute">>, <<"Txt_record">>, <<"Txt_stop_rec">>, <<"Txt_transcribe">>,
     <<"Txt_stop_transcribing">> >>

\* C17: a command text that is exactly the phrase of a registered command is
\* dispatched to the handler of that command: "unmute" to unmute, "stop
\* recording" to stop-recording, "stop transcribing" to stop-transcribing.
C17_OwnHandler ==
  [][(SpokenStep /\ SpokenReaches(spoken'.line))
       => \A i \in 1..Len(ListedOrder) :
            spoken'.line = PhraseLines[i] => spoken'.handlers = <<ListedOrder[i]>>]_vars

(***************************************************************************)
(* The dedup history at its capacity                                       *)
(***************************************************************************)

\* distinct chat messages the monitoring loop meets
MaxKeys == 102

\* slots of the hash table behind a Python set of this size
Slots == 256

\* multipliers of the salted string hash the model tries
MaxMultiplier == 3

\* the monitoring loop seen from its dedup history.  The n-th distinct
\* message the loop meets has the key n, so a key is greater than the keys
\* inserted before it.

\* the slot of a key in the hash table of the set; the hash of a str depends
\* on the salt of the process, here the multiplier a and the offset b
slot(k, a, b) == (a * k + b) % Slots

Salts == {a \in 1..MaxMultiplier : a % 2 = 1} \X (0..(Slots - 1))

\* list(history)[-50:]: list() walks the hash table slot by slot, the slice
\* takes the keys of the last 50 occupied slots
last_keys(history, a, b) ==
  {k \in history :
     Cardinality({j \in history : slot(j, a, b) > slot(k, a, b)}) < HistoryKeep}

\* while self.is_monitoring ...: a poll begins and the chat is read
History_poll ==
  /\ thread.pc = "loop"
  /\ is_monitoring
  /\ thread' = [thread EXCEPT !.pc = "process"]
  /\ UNCHANGED <<ext, wired, channel, starts, driver, is_in_meeting, meeting_start_time, is_recording,
                 meeting_transcript, chat, is_monitoring, last_processed_message,
                 last_processed_messages, caller, leave_threads, leave_count,
                 utterances, handled, spoken>>

\* one iteration of the for loop on a message that is not in the history:
\* its key is added, then the message is processed, which may raise
History_new_message(raises) ==
  /\ thread.pc = "process"
  /\ utterances.chat < MaxKeys
  /\ utterances' = [utterances EXCEPT !.chat = @ + 1]
  /\ last_processed_messages' = last_processed_messages \cup {utterances.chat + 1}
  /\ IF raises
       THEN /\ thread' = after_exception(thread).thread
            /\ is_monitoring' = after_exception(thread).is_monitoring
       ELSE UNCHANGED <<thread, is_monitoring>>
  /\ UNCHANGED <<ext, wired, channel, starts, driver, is_in_meeting, meeting_start_time, is_recording,
                 meeting_transcript, chat, last_processed_message, caller,
                 leave_threads, leave_count, handled, spoken>>

\* the end of the poll: if len(last_processed_messages) > 100, the set is
\* replaced by set(list(last_processed_messages)[-50:])
History_trim(a, b) ==
  /\ thread.pc = "process"
  /\ LET kept == IF Cardinality(last_processed_messages) > HistoryCap
                   THEN last_keys(last_processed_messages, a, b)
                   ELSE last_processed_messages
     IN  /\ kept \in trimmed(last_processed_messages)
         /\ last_processed_messages' = kept
  /\ thread' = [thread EXCEPT !.pc = "loop"]
  /\ UNCHANGED <<ext, wired, channel, starts, driver, is_in_meeting, meeting_start_time, is_recording,
                 meeting_transcript, chat, is_monitoring, last_processed_message,
                 caller, leave_threads, leave_count, utterances, handled, spoken>>

NextHistory ==
  \/ start_monitoring
  \/ History_poll
  \/ \E raises \in BOOLEAN : History_new_message(raises)
  \/ \E salt \in Salts : History_trim(salt[1], salt[2])

SpecHistory == Init /\ [][NextHistory]_vars

\* this step ends a poll
PollEnds == thread.pc = "process" /\ thread'.pc = "loop"

\* the keys this step removes from the history
Evicted == last_processed_messages \ last_processed_messages'

\* C18: when the history is trimmed, the retained keys are the most recent
\* ones: no evicted key was inserted after a retained key (so a key inserted
\* in the poll that triggers the trim goes only if every older key goes).
C18_TrimKeepsRecent ==
  [][\A e \in Evicted, r \in last_processed_messages' : e < r]_vars

\* C19: the history holds at most 100 keys whenever a poll ends and exactly
\* 50 keys right after a trim, and a key leaves the history only by the trim
\* at the end of a poll that found more than 100 keys.
C19_BoundedHistory ==
  [][/\ PollEnds => Cardinality(last_processed_messages') <= HistoryCap
     /\ Evicted # {}
          => /\ PollEnds
             /\ Cardinality(last_processed_messages) > HistoryCap
             /\ Cardinality(last_processed_messages') = HistoryKeep
    ]_vars

(***************************************************************************)
(* The same text from two speakers                                         *)
(***************************************************************************)

\* C20: of two chat messages with the same text from different speakers that
\* the same monitoring loop has looked at, at most one has been processed:
\* the other one has invoked no handler and got no reply.
C20_SameTextCollapses ==
  \A k1 \in DOMAIN handled, k2 \in DOMAIN handled :
    (/\ handled[k1].text = handled[k2].text
     /\ handled[k1].sender # handled[k2].sender)
      => \/ NoAction(handled[k1])
         \/ NoAction(handled[k2])
(***************************************************************************)
(* The chat loop and the speech path of one CommandRecognizer              *)
(***************************************************************************)

\* what the participants type and say in such a meeting
BothTexts == { <<"Txt_help">>, <<"Txt_status">> }

InitBoth == wired = "recognizer" /\ channel = "both" /\ Constructed

\* a meeting in which the recognizer polls the chat while transcript lines
\* are handed to process_transcript_line
NextBoth ==
  \/ \E found \in BOOLEAN : join_meeting(TRUE, found)
  \/ start_monitoring
  \/ \E text \in BothTexts : post_chat_message(Sam, text)
  \/ \E found \in BOOLEAN : thread_send(found)
  \/ CR_monitor_loop
  \/ \E fails \in BOOLEAN : CR_get_chat_messages(fails)
  \/ \E participants \in get_participants : CR_process_message(FALSE, participants)
  \/ CR_end_poll
  \/ \E line \in BothTexts, participants \in get_participants :
       process_transcript_line(line, FALSE, participants)
  \/ \E found \in BOOLEAN : caller_send(found)

SpecBoth == InitBoth /\ [][NextBoth]_vars

\* C21: a command text that the chat loop and the speech path both deliver
\* reaches a handler from one of the two only: the dedup test and the
\* recording of the text exclude each other across the two threads.
C21_ExclusiveDedup ==
  \A d \in Observed :
    (d.text = spoken.line /\ d.handlers # <<>>) => spoken.handlers = <<>>

(***************************************************************************)
(* MeetingAgent and MeetingMemory                                          *)
(***************************************************************************)

\* entries the transcript of the model may hold
MaxEntries == 4

\* what the transcription hands to MeetingAgent.process_transcript
AgentTexts ==
  { <<"Txt_status">>, <<"Txt_bare">>, <<"Txt_bare_ws">>, <<"Txt_hello">>,
    <<"Txt_write_to", "Pii_email">>, <<"Txt_call", "Pii_phone">> }

\* MeetingAgent.name, the speaker of the assistant's entries
AgentName == <<"AgentName">>

\* what self.agent.run(query) does: it returns a text or raises
Runs ==
  { [raised |-> FALSE, text |-> <<"Ans_roadmap">>],
    [raised |-> TRUE, text |-> <<"Err_timeout">>] }

\* security_manager.filter_pii: an e-mail address becomes "[EMAIL]", a phone
\* number "[PHONE]"
filter_pii(text) ==
  [i \in 1..Len(text) |->
     CASE text[i] = "Pii_email" -> "S_EMAIL"
       [] text[i] = "Pii_phone" -> "S_PHONE"
       [] OTHER -> text[i]]

\* the transcript in front of which, not after which, the entry is put
appended_in_front(transcript, speaker, text, is_assistant) ==
  <<[speaker |-> speaker, text |-> filter_pii(text), is_assistant |-> is_assistant]>>
    \o transcript

\* MeetingMemory.add_transcript_entry: the transcript after the call (the
\* timestamp of the entry is left out)
appended(transcript, speaker, text, is_assistant) ==
  Append(transcript,
         [speaker |-> speaker, text |-> filter_pii(text), is_assistant |-> is_assistant])

\* add_transcript_entry(speaker, text, is_assistant=...) called directly
add_transcript_entry(speaker, text, is_assistant) ==
  /\ Len(memory.transcript) < MaxEntries
  /\ memory' = [memory EXCEPT
                  !.transcript = appended(@, speaker, text, is_assistant)]
  /\ UNCHANGED <<base, loops, audio, client>>

\* the trigger test of process_transcript and whether a query follows the
\* trigger word
query_of ==
  [t \in AgentTexts |->
     LET text == Text(t)
         trigger == Lower(Text(TriggerWord))
     IN  IF Contains(trigger, Lower(text))
           THEN [triggered |-> TRUE,
                 query |-> Strip(From(text, (Find(trigger, Lower(text)) - 1)
                                              + Len(Text(TriggerWord))))]
           ELSE [triggered |-> FALSE, query |-> <<>>]]

\* the text of the reply when self.agent.run raised
error_response(run) == <<"R_agent_error_prefix">> \o run.text

\* process_transcript in which the exception of the run leaves the call
process_transcript_reraises(speaker, text, run) ==
  /\ Len(memory.transcript) + 2 <= MaxEntries
  /\ LET first == appended(memory.transcript, speaker, text, FALSE)
         answers == query_of[text].triggered /\ query_of[text].query # <<>>
     IN  memory' = [memory EXCEPT
           !.calls = @ + 1,
           !.call = [speaker |-> speaker, text |-> text, run |-> run],
           !.transcript =
              IF answers /\ ~run.raised
                THEN appended(first, AgentName, run.text, TRUE)
                ELSE first,
           !.result = IF ~answers THEN None
                      ELSE IF run.raised THEN <<"raised">> ELSE run.text]
  /\ UNCHANGED <<base, loops, audio, client>>

\* MeetingAgent.process_transcript(speaker, text)
process_transcript(speaker, text, run) ==
  /\ Len(memory.transcript) + 2 <= MaxEntries
  /\ LET first == appended(memory.transcript, speaker, text, FALSE)
         answers == query_of[text].triggered /\ query_of[text].query # <<>>
         response == IF run.raised THEN error_response(run) ELSE run.text
     IN  memory' = [memory EXCEPT
           !.calls = @ + 1,
           !.call = [speaker |-> speaker, text |-> text, run |-> run],
           !.transcript =
              IF answers THEN appended(first, AgentName, response, TRUE)
                         ELSE first,
           !.result = IF answers THEN response ELSE None]
  /\ UNCHANGED <<base, loops, audio, client>>

\* MeetingMemory.end_meeting
end_meeting ==
  /\ ~memory.end_time
  /\ memory' = [memory EXCEPT !.end_time = TRUE]
  /\ UNCHANGED <<base, loops, audio, client>>

\* MeetingMemory.save_transcript: the file holds the transcript as it is
save_transcript ==
  /\ memory.saved # [written |-> TRUE, transcript |-> memory.transcript]
  /\ memory' = [memory EXCEPT
                  !.saved = [written |-> TRUE, transcript |-> memory.transcript]]
  /\ UNCHANGED <<base, loops, audio, client>>

InitAgent == wired = "recognizer" /\ channel = "spoken" /\ Constructed

\* a meeting whose transcription feeds the agent and the transcript of the
\* browser automation, and in which a command is spoken
NextAgent ==
  \/ add_transcript_entry(Sam, <<"Txt_hello">>, FALSE)
  \/ \E text \in AgentTexts, run \in Runs :
       process_transcript(<<"S_user">>, text, run)
  \/ end_meeting
  \/ save_transcript
  \/ add_to_transcript
  \/ start_monitoring
  \/ \E participants \in get_participants :
       process_transcript_line(<<"Txt_summarize">>, FALSE, participants)
  \/ \E found \in BOOLEAN : caller_send(found)

SpecAgent == InitAgent /\ [][NextAgent]_vars

\* s is an initial part of t
IsPrefix(s, t) == Len(s) <= Len(t) /\ \A i \in 1..Len(s) : s[i] = t[i]

Answerable ==
  [t \in AgentTexts |->
     LET s == Lower(Text(t))
         w == Lower(Text(TriggerWord))
     IN  /\ Contains(w, s)
         /\ \E i \in (Find(w, s) + Len(w))..Len(s) : s[i] \notin WhiteSpace]

\* this step is a call of MeetingAgent.process_transcript
AgentStep == memory'.calls # memory.calls

\* C28: a call of process_transcript for an utterance with the trigger word
\* and a query returns a text and adds two entries, the utterance
\* (is_assistant false) and then the reply (is_assistant true); the reply is
\* the response of the run or, when the run raised, the error text with the
\* message of the exception. For any other utterance the call adds the
\* utterance alone and returns None.
C28_AgentFailureBecomesReply ==
  [][AgentStep =>
       LET c == memory'.call
           old == memory.transcript
           new == memory'.transcript
           n == Len(old)
       IN  /\ IsPrefix(old, new)
           /\ Len(new) > n
           /\ new[n + 1].speaker = c.speaker
           /\ ~new[n + 1].is_assistant
           /\ IF Answerable[c.text]
                THEN /\ Len(new) = n + 2
                     /\ new[n + 2].is_assistant
                     /\ new[n + 2].text = memory'.result
                     /\ memory'.result =
                          IF c.run.raised
                            THEN <<"R_agent_error_prefix">> \o c.run.text
                            ELSE c.run.text
                ELSE /\ Len(new) = n + 1
                     /\ memory'.result = None]_vars

\* the run raised for an utterance with a query, and the call returned the
\* error text
C28_Witness ==
  /\ memory.calls > 0
  /\ Answerable[memory.call.text]
  /\ memory.call.run.raised
  /\ memory.result = <<"R_agent_error_prefix", "Err_timeout">>
  /\ Len(memory.transcript) >= 2

(***************************************************************************)
(* A message that stays visible while the history is trimmed               *)
(***************************************************************************)

\* the messages that stay in the chat panel for the whole session: the first
\* one and the one that brings the history over its capacity
StaysVisible == {1, HistoryCap + 1}

\* one iteration of the for loop on a message the loop has processed before
\* and whose key is no longer in the history: the key is added and the
\* message is processed again
History_visible_message(k) ==
  /\ thread.pc = "process"
  /\ k <= utterances.chat
  /\ k \notin last_processed_messages
  /\ last_processed_messages' = last_processed_messages \cup {k}
  /\ UNCHANGED <<ext, wired, channel, starts, driver, is_in_meeting, meeting_start_time,
                 is_recording, meeting_transcript, chat, is_monitoring,
                 last_processed_message, thread, caller, leave_threads, leave_count,
                 utterances, handled, spoken>>

NextVisible ==
  \/ start_monitoring
  \/ History_poll
  \/ \E raises \in BOOLEAN : History_new_message(raises)
  \/ \E salt \in Salts : History_trim(salt[1], salt[2])
  \/ \E k \in StaysVisible : History_visible_message(k)

SpecVisible == Init /\ [][NextVisible]_vars

\* C23: a message that stays visible is processed, and so answered, once in
\* the run of a monitoring loop: no step processes a message that the loop
\* has processed before.
C23_AnsweredOnce ==
  [][\A k \in StaysVisible :
       k <= utterances.chat
         => k \notin (last_processed_messages' \ last_processed_messages)]_vars

(***************************************************************************)
(* The monitoring loops that start_monitoring leaves behind                *)
(***************************************************************************)

\* monitoring threads one dispatcher starts
MaxLoops == 2

\* the loop threads that have not returned from _monitor_chat
Active == {i \in DOMAIN loops : loops[i].pc # "exited"}

\* start_monitoring: returns if the flag is set; otherwise sets it and starts
\* a new thread, whatever became of the thread started before
Loops_start_monitoring ==
  /\ ~is_monitoring
  /\ Len(loops) < MaxLoops
  /\ is_monitoring' = TRUE
  /\ loops' = Append(loops, [pc |-> "test", seen |-> {}])
  /\ UNCHANGED <<memory, audio, client, wired, channel, starts, driver, is_in_meeting,
                 meeting_start_time, is_recording, meeting_transcript, chat,
                 last_processed_message, last_processed_messages, thread, caller,
                 leave_threads, leave_count, utterances, handled, spoken>>

\* stop_monitoring: clears the flag and joins the thread for at most 2
\* seconds. A thread that is at its while test sees the cleared flag and
\* exits within that time; a thread inside time.sleep (3 seconds in the
\* recognizer, 2 in the chat handler) or inside a poll can outlast the join.
Loops_stop_monitoring ==
  /\ is_monitoring
  /\ is_monitoring' = FALSE
  /\ loops' = [i \in DOMAIN loops |->
                 IF loops[i].pc = "test" THEN [loops[i] EXCEPT !.pc = "exited"]
                                         ELSE loops[i]]
  /\ UNCHANGED <<memory, audio, client, wired, channel, starts, driver, is_in_meeting,
                 meeting_start_time, is_recording, meeting_transcript, chat,
                 last_processed_message, last_processed_messages, thread, caller,
                 leave_threads, leave_count, utterances, handled, spoken>>

\* the while test of _monitor_chat in thread i; the recognizer's loop sleeps
\* before it polls, the chat handler's after it
Loops_test(i) ==
  /\ loops[i].pc = "test"
  /\ LET goes_on == IF wired = "recognizer" THEN is_monitoring
                                             ELSE is_monitoring /\ driver
     IN  loops' = [loops EXCEPT ![i].pc =
                     IF ~goes_on THEN "exited"
                     ELSE IF wired = "recognizer" THEN "sleep" ELSE "poll"]
  /\ UNCHANGED <<memory, audio, client, wired, channel, starts, driver, is_in_meeting,
                 meeting_start_time, is_recording, meeting_transcript, chat,
                 is_monitoring, last_processed_message, last_processed_messages,
                 thread, caller, leave_threads, leave_count, utterances, handled,
                 spoken>>

\* time.sleep(3) / time.sleep(2) in thread i ends
Loops_sleep(i) ==
  /\ loops[i].pc = "sleep"
  /\ loops' = [loops EXCEPT ![i].pc = IF wired = "recognizer" THEN "poll" ELSE "test"]
  /\ UNCHANGED <<memory, audio, client, wired, channel, starts, driver, is_in_meeting,
                 meeting_start_time, is_recording, meeting_transcript, chat,
                 is_monitoring, last_processed_message, last_processed_messages,
                 thread, caller, leave_threads, leave_count, utterances, handled,
                 spoken>>

\* one poll of thread i: the messages of the chat whose key is not in the
\* history are processed. The history is the local set of this run of
\* _monitor_chat (recognizer) or the attribute of the ChatHandler.
Loops_poll(i) ==
  /\ loops[i].pc = "poll"
  /\ LET keys == IF wired = "recognizer"
                   THEN {CR_message_id(chat[n]) : n \in DOMAIN chat}
                   ELSE {chat[n].text : n \in DOMAIN chat}
         new == IF wired = "recognizer" THEN keys \ loops[i].seen
                                        ELSE keys \ last_processed_messages
     IN  /\ loops' = [loops EXCEPT
                        ![i].pc = IF wired = "recognizer" THEN "test" ELSE "sleep",
                        ![i].seen = @ \cup new]
         /\ last_processed_messages' =
              IF wired = "recognizer" THEN last_processed_messages
                                      ELSE last_processed_messages \cup new
  /\ UNCHANGED <<memory, audio, client, wired, channel, starts, driver, is_in_meeting,
                 meeting_start_time, is_recording, meeting_transcript, chat,
                 is_monitoring, last_processed_message, thread, caller,
                 leave_threads, leave_count, utterances, handled, spoken>>

\* a dispatcher that is started and stopped again and again while the
\* participants type
NextLoops ==
  \/ \E found \in BOOLEAN : join_meeting(TRUE, found)
  \/ \E sender \in Users, text \in BothTexts : post_chat_message(sender, text)
  \/ Loops_start_monitoring
  \/ Loops_stop_monitoring
  \/ \E i \in DOMAIN loops : Loops_test(i)
  \/ \E i \in DOMAIN loops : Loops_sleep(i)
  \/ \E i \in DOMAIN loops : Loops_poll(i)

SpecLoops == Init /\ [][NextLoops]_vars

\* C24: whatever the sequence of start_monitoring and stop_monitoring calls,
\* at most one monitoring loop thread has not exited, and no chat message
\* is processed by two loops.
C24_OneLoop ==
  /\ Cardinality(Active) <= 1
  /\ \A i, j \in DOMAIN loops : i # j => loops[i].seen \cap loops[j].seen = {}

(***************************************************************************)
(* AudioProcessor                                                          *)
(***************************************************************************)

\* chunks the input queue of the model holds
MaxQueue == 2
\* chunks of one synthesized reply
SpeechChunks == 2
\* if is_speaking and silence_frames > 10
SilenceFrames == 10
\* if len(buffer) < 5
MinBuffer == 5

\* start_processing(transcript_callback): the streams and the processing
\* thread start
start_processing ==
  /\ ~audio.is_processing
  /\ audio.pc = "none"
  /\ audio' = [audio EXCEPT !.is_processing = TRUE, !.pc = "get"]
  /\ UNCHANGED <<base, loops, memory, client>>

\* _input_callback: the chunk the microphone delivers is put into the input
\* queue; the model notes whether speak was in progress when it was
\* captured
input_callback(loud) ==
  /\ audio.is_processing
  /\ Len(audio.input_queue) < MaxQueue
  /\ audio' = [audio EXCEPT
       !.input_queue = Append(@, [loud |-> loud, speaking |-> audio.is_speaking])]
  /\ UNCHANGED <<base, loops, memory, client>>

\* _output_callback: one chunk of the reply is played
output_callback ==
  /\ audio.is_processing
  /\ audio.output_queue > 0
  /\ audio' = [audio EXCEPT !.output_queue = @ - 1]
  /\ UNCHANGED <<base, loops, memory, client>>

\* one iteration of the while loop of _process_audio that gets a chunk. When
\* the buffer is transcribed, the transcript callback runs in this thread:
\* the agent may answer, and then speak(response) runs in this thread too,
\* sets is_speaking, fills the output queue and waits for it to empty.
process_audio(transcription, response, synthesized) ==
  /\ audio.pc = "get"
  /\ audio.is_processing
  /\ audio.input_queue # <<>>
  /\ LET data == Head(audio.input_queue)
         rest == [audio EXCEPT !.input_queue = Tail(@)]
         \* silence_frames += 1, kept only up to the first value above the
         \* threshold
         silence_frames == IF data.loud THEN 0
                           ELSE IF audio.silence_frames > SilenceFrames
                             THEN audio.silence_frames
                             ELSE audio.silence_frames + 1
         voiced == data.loud \/ audio.voiced
         buffer == IF voiced
                     THEN [chunks |-> IF audio.buffer.chunks < MinBuffer
                                        THEN audio.buffer.chunks + 1
                                        ELSE MinBuffer,
                           own |-> audio.buffer.own \/ data.speaking]
                     ELSE audio.buffer
         heard == [rest EXCEPT !.silence_frames = silence_frames,
                               !.voiced = voiced,
                               !.buffer = buffer]
         empty == [chunks |-> 0, own |-> FALSE]
     IN  audio' =
           IF audio.is_speaking
             THEN rest
           ELSE IF ~(voiced /\ silence_frames > SilenceFrames)
             THEN heard
           ELSE IF buffer.chunks < MinBuffer
             THEN [heard EXCEPT !.voiced = FALSE, !.buffer = empty]
           ELSE IF transcription /\ response /\ synthesized
             THEN [heard EXCEPT !.voiced = FALSE,
                                !.transcribed = IF buffer.own THEN "own" ELSE "others",
                                !.is_speaking = TRUE,
                                !.output_queue = SpeechChunks,
                                !.pc = "speaking"]
           ELSE [heard EXCEPT !.voiced = FALSE,
                              !.transcribed = IF buffer.own THEN "own" ELSE "others",
                              !.buffer = empty]
  /\ UNCHANGED <<base, loops, memory, client>>

\* speak: the output queue is empty, is_speaking is cleared and the call
\* returns to _process_audio, which clears its buffer
speak_returns ==
  /\ audio.pc = "speaking"
  /\ audio.output_queue = 0 \/ ~audio.is_processing
  /\ audio' = [audio EXCEPT !.is_speaking = FALSE,
                            !.pc = "get",
                            !.buffer = [chunks |-> 0, own |-> FALSE]]
  /\ UNCHANGED <<base, loops, memory, client>>

NextAudio ==
  \/ start_processing
  \/ \E loud \in BOOLEAN : input_callback(loud)
  \/ output_callback
  \/ \E transcription \in BOOLEAN, response \in BOOLEAN, synthesized \in BOOLEAN :
       process_audio(transcription, response, synthesized)
  \/ speak_returns

SpecAudio == Init /\ [][NextAudio]_vars

\* C25: no chunk that the input callback captured while speak was in
\* progress is in the speech buffer, and none was passed to transcription.
C25_NoOwnSpeech ==
  /\ ~audio.buffer.own
  /\ audio.transcribed # "own"

(***************************************************************************)
(* The dedup of the spoken path                                            *)
(***************************************************************************)

\* transcript lines of one meeting
MaxSpoken == 3

\* the lines: two commands, one of them in two capitalisations of the
\* trigger word, small talk and the bare trigger word
SpokenTexts ==
  { <<"Txt_status">>, <<"Txt_help">>, <<"Txt_AUGMENT_help">>, <<"Txt_hello">>,
    <<"Txt_bare">> }

\* a recognizer that is started and stopped while lines are handed to
\* process_transcript_line
NextSpoken ==
  \/ \E in_meeting \in BOOLEAN, found \in BOOLEAN : join_meeting(in_meeting, found)
  \/ start_monitoring
  \/ stop_monitoring
  \/ \E line \in SpokenTexts, participants \in get_participants :
       /\ utterances.spoken < MaxSpoken
       /\ CR_process_transcript_line(line, FALSE, participants)
  \/ \E found \in BOOLEAN : caller_send(found)

SpecSpoken == InitCommands /\ [][NextSpoken]_vars

\* this step hands a command text to _process_command
Dispatched ==
  /\ SpokenStep
  /\ spoken' # [spoken EXCEPT !.again = TRUE]
  /\ spoken'.handlers # <<>> \/ spoken'.responses # <<>> \/ spoken'.raised

\* C26: a line with a non-empty command text is dispatched exactly when
\* monitoring is on and the text differs from last_processed_message; a
\* dispatch stores the text there, and nothing else changes
\* last_processed_message, so that it is the text of the last dispatched
\* spoken command.
C26_LastCommandOnly ==
  [][/\ SpokenStep =>
          LET text == AfterTrigger[spoken'.line]
          IN  IF text # <<>>
                THEN /\ Dispatched <=>
                          (is_monitoring /\ Canonical(text) # last_processed_message)
                     /\ Dispatched => last_processed_message' = Canonical(text)
                ELSE ~Dispatched
     /\ ~Dispatched => last_processed_message' = last_processed_message
    ]_vars

\* "Augment status" is the third line of the meeting and is dispatched
C26_Witness ==
  /\ utterances.spoken = MaxSpoken
  /\ spoken.line = <<"Txt_status">>
  /\ spoken.handlers = <<"status">>
  /\ ~spoken.again
  /\ last_processed_message = <<"Cmd_status">>

(***************************************************************************)
(* The two routers on the commands they share                              *)
(***************************************************************************)

\* a meeting, with either dispatcher, whose participants type or say the
\* utterances of SharedLines
NextShared ==
  \/ \E found \in BOOLEAN : join_meeting(TRUE, found)
  \/ start_monitoring
  \/ \E text \in SharedLines : post_chat_message(Sam, text)
  \/ \E found \in BOOLEAN : thread_send(found)
  \/ CR_monitor_loop
  \/ \E fails \in BOOLEAN : CR_get_chat_messages(fails)
  \/ \E participants \in get_participants : CR_process_message(FALSE, participants)
  \/ CR_end_poll
  \/ \E line \in SharedLines, participants \in get_participants :
       process_transcript_line(line, FALSE, participants)
  \/ \E found \in BOOLEAN : caller_send(found)
  \/ CH_monitor_loop
  \/ \E fails \in BOOLEAN : CH_check_for_commands(fails)
  \/ \E participants \in get_participants : CH_process_message(FALSE, participants)
  \/ CH_end_check

SpecShared == Init /\ [][NextShared]_vars

\* C27: for an utterance that names only commands both routers know, the
\* handler the ChatHandler invokes is the one CommandRecognizer
\* ._process_command chooses for its command text, and the handler the
\* recognizer invokes for a spoken line is the one ChatHandler
\* ._process_command chooses for it.
C27_RoutersAgree ==
  /\ wired = "chat_handler" =>
       \A d \in Observed :
         (d.text \in SharedLines /\ d.handlers # <<>>)
           => d.handlers = CR_of[CR_command_text_of[d.text]].handlers
  /\ (wired = "recognizer" /\ spoken.line \in SharedLines /\ spoken.handlers # <<>>)
       => spoken.handlers = CH_of[spoken.line].handlers

(***************************************************************************)
(* MeetClient and AudioRouting                                             *)
(***************************************************************************)

\* calls of MeetClient.join_meeting
MaxJoins == 1

\* the steps of setup_virtual_devices, in their order
SetupSteps == <<"pulseaudio", "mic", "speaker", "loopback", "default_source">>

\* setup_virtual_devices(): the modules it has loaded when the step `fail`
\* fails ("none": no step fails and the call returns True)
setup_virtual_devices(fail) ==
  CASE fail \in {"pulseaudio", "mic"} -> {}
    [] fail = "speaker" -> {"mic"}
    [] fail = "loopback" -> {"mic", "speaker"}
    [] OTHER -> {"mic", "speaker", "loopback"}

\* cleanup_virtual_devices(): the modules whose ids the AudioRouting holds
\* are unloaded
cleanup_virtual_devices(modules) == {}

\* MeetClient.join_meeting(meeting_url). raises: "agent" when MeetingAgent()
\* raises, "start_processing" when the input stream cannot be opened, "no"
\* otherwise; fail: the step of setup_virtual_devices that fails;
\* in_meeting, found: what BrowserAutomation.join_meeting meets
MC_join_meeting(raises, fail, in_meeting, found) ==
  /\ client.joins < MaxJoins
  /\ ~meeting_start_time
  /\ ~audio.is_processing
  /\ IF raises = "agent"
       \* leave_meeting() finds nothing to stop; return False
       THEN /\ client' = [client EXCEPT !.joins = @ + 1, !.result = "False"]
            /\ UNCHANGED <<driver, is_in_meeting, meeting_start_time, is_recording,
                           chat, audio>>
     ELSE IF fail # "none"
       \* return False right after setup_virtual_devices
       THEN /\ client' = [client EXCEPT !.joins = @ + 1, !.result = "False",
                                        !.modules = setup_virtual_devices(fail)]
            /\ UNCHANGED <<driver, is_in_meeting, meeting_start_time, is_recording,
                           chat, audio>>
     ELSE IF ~in_meeting
       \* the browser did not get in: cleanup_virtual_devices(), return False
       THEN /\ client' = [client EXCEPT
                            !.joins = @ + 1, !.result = "False",
                            !.modules = cleanup_virtual_devices(setup_virtual_devices(fail))]
            /\ driver' = TRUE
            /\ UNCHANGED <<is_in_meeting, meeting_start_time, is_recording, chat, audio>>
     ELSE /\ driver' = TRUE
          /\ is_in_meeting' = TRUE
          /\ meeting_start_time' = TRUE
          /\ is_recording' = (RecordAudio \/ is_recording)
          /\ chat' = IF found
                       THEN <<[sender |-> AssistantName, text |-> <<"Greeting">>]>>
                       ELSE <<>>
          /\ IF raises = "start_processing"
               \* is_processing is set, the stream is not there: leave_meeting()
               \* clears is_running and is_processing and raises in
               \* stop_processing, and the exception leaves join_meeting
               THEN /\ client' = [client EXCEPT
                                    !.joins = @ + 1, !.result = "raised",
                                    !.modules = setup_virtual_devices(fail)]
                    /\ UNCHANGED audio
               ELSE /\ client' = [client EXCEPT
                                    !.joins = @ + 1, !.result = "True",
                                    !.modules = setup_virtual_devices(fail),
                                    !.is_running = TRUE, !.thread = "check"]
                    /\ audio' = [audio EXCEPT !.is_processing = TRUE, !.pc = "get"]
  /\ UNCHANGED <<loops, memory, wired, channel, starts, meeting_transcript, is_monitoring,
                 last_processed_message, last_processed_messages, thread, caller,
                 leave_threads, leave_count, utterances, handled, spoken>>

\* MeetClient.leave_meeting(), called by the owner after a join: clears
\* is_running, joins the meeting loop for 5 seconds (the loop sleeps 10),
\* stops the audio processing, leaves the meeting in the browser, unloads
\* the modules, ends and saves the memory
MC_leave_meeting ==
  /\ client.result = "True"
  /\ ~client.left
  /\ client' = [client EXCEPT
                  !.left = TRUE,
                  !.is_running = FALSE,
                  !.thread = IF @ = "check" THEN "exited" ELSE @,
                  !.modules = cleanup_virtual_devices(@)]
  /\ audio' = [audio EXCEPT !.is_processing = FALSE,
                            !.pc = IF @ = "get" THEN "exited" ELSE @]
  /\ leave_meeting
  /\ memory' = [memory EXCEPT
                  !.end_time = TRUE,
                  !.saved = [written |-> TRUE, transcript |-> memory.transcript]]
  /\ UNCHANGED <<loops, wired, channel, starts, meeting_start_time, meeting_transcript,
                 chat, is_monitoring, last_processed_message, last_processed_messages,
                 thread, caller, leave_threads, leave_count, utterances, handled,
                 spoken>>

\* one pass of the while loop of _meeting_loop. on_meet_page: "Meet" is in
\* the title of the page the driver shows
MC_meeting_loop(on_meet_page) ==
  /\ client.thread = "check"
  /\ client' =
       IF ~client.is_running
         THEN [client EXCEPT !.thread = "exited"]
       ELSE IF ~(driver /\ on_meet_page)
         THEN [client EXCEPT !.is_running = FALSE, !.thread = "exited"]
       ELSE [client EXCEPT !.thread = "sleep"]
  /\ UNCHANGED <<base, loops, memory, audio>>

\* time.sleep(check_interval) of the meeting loop ends
MC_meeting_sleep ==
  /\ client.thread = "sleep"
  /\ client' = [client EXCEPT !.thread = "check"]
  /\ UNCHANGED <<base, loops, memory, audio>>

NextClient ==
  \/ \E raises \in {"no", "agent", "start_processing"},
        fail \in {SetupSteps[i] : i \in DOMAIN SetupSteps} \cup {"none"},
        in_meeting \in BOOLEAN, found \in BOOLEAN :
       MC_join_meeting(raises, fail, in_meeting, found)
  \/ MC_leave_meeting
  \/ \E on_meet_page \in BOOLEAN : MC_meeting_loop(on_meet_page)
  \/ MC_meeting_sleep
  \/ owner_leave_meeting
  \/ \E loud \in BOOLEAN : input_callback(loud)
  \/ output_callback
  \/ \E transcription \in BOOLEAN, response \in BOOLEAN, synthesized \in BOOLEAN :
       process_audio(transcription, response, synthesized)
  \/ speak_returns

SpecClient == Init /\ [][NextClient]_vars

\* this step is a call of MeetClient.join_meeting
JoinStep == client'.joins # client.joins

\* C29: when join_meeting returns False, is_running is False, neither the
\* meeting loop nor the audio processing thread runs and none of the
\* PulseAudio modules the call loaded is still loaded; when it returns True,
\* is_running is True and the meeting loop has been started.
C29_FailedJoinLeavesNothing ==
  [][JoinStep =>
       /\ client'.result = "False" =>
            /\ ~client'.is_running
            /\ client'.thread \notin {"check", "sleep"}
            /\ audio'.pc \notin {"get", "speaking"}
            /\ client'.modules = {}
       /\ client'.result = "True" =>
            /\ client'.is_running
            /\ client'.thread = "check"]_vars

(***************************************************************************)
(* Stopping the loops, under fair scheduling                               *)
(***************************************************************************)

\* the steps of the monitoring thread of either dispatcher
MonitoringThread ==
  \/ CR_monitor_loop
  \/ \E fails \in BOOLEAN : CR_get_chat_messages(fails)
  \/ \E fault \in BOOLEAN, participants \in get_participants :
       CR_process_message(fault, participants)
  \/ CR_end_poll
  \/ CH_monitor_loop
  \/ \E fails \in BOOLEAN : CH_check_for_commands(fails)
  \/ \E fault \in BOOLEAN, participants \in get_participants :
       CH_process_message(fault, participants)
  \/ CH_end_check
  \/ \E found \in BOOLEAN : thread_send(found)

\* the steps of the thread of MeetClient._meeting_loop
MeetingLoop ==
  \/ \E on_meet_page \in BOOLEAN : MC_meeting_loop(on_meet_page)
  \/ MC_meeting_sleep

\* what the owner and the participants do
Owner ==
  \/ \E found \in BOOLEAN : join_meeting(TRUE, found)
  \/ \E raises \in {"no", "agent"}, fail \in {"none", "speaker"},
        in_meeting \in BOOLEAN :
       MC_join_meeting(raises, fail, in_meeting, TRUE)
  \/ MC_leave_meeting
  \/ owner_leave_meeting
  \/ \E id \in leave_threads : leave_after_delay(id)
  \/ start_monitoring
  \/ stop_monitoring
  \/ \E text \in {<<"Txt_status">>, <<"Txt_leave">>} : post_chat_message(Sam, text)

NextStop == Owner \/ MonitoringThread \/ MeetingLoop

InitStop == Init /\ channel = "chat"

\* the threads are daemon threads of one process: each of them gets to run
\* as long as it has a step to take; time.sleep and the calls of Selenium
\* return
SpecStop ==
  /\ InitStop
  /\ [][NextStop]_vars
  /\ WF_vars(MonitoringThread)
  /\ WF_vars(MeetingLoop)

\* C30: once is_monitoring is False and start_monitoring is not called
\* again, the monitoring thread eventually exits; once the driver has been
\* released, the thread of the ChatHandler eventually exits; once
\* MeetClient.is_running is False, the meeting loop eventually exits.
C30_StoppingTerminates ==
  /\ (starts = MaxStarts /\ ~is_monitoring) ~> (thread.pc = "exited")
  /\ (wired = "chat_handler" /\ meeting_start_time /\ ~driver /\ thread.pc # "none")
       ~> (thread.pc = "exited")
  /\ (client.joins = MaxJoins /\ ~client.is_running /\ client.thread # "none")
       ~> (client.thread = "exited")

\* the monitoring thread has exited after stop_monitoring, and the meeting
\* loop has exited after MeetClient.leave_meeting
C30_Witness ==
  /\ starts = MaxStarts
  /\ ~is_monitoring
  /\ thread.pc = "exited"
  /\ client.left
  /\ client.thread = "exited"

=============================================================================
